---- MODULE Spec2Model ----
(***************************************************************************)
(* Build-plan resolution of verdafile.js: axis validation, suffix mapping, *)
(* plan expansion (BuildPlans), per-font metadata (FontInfoOf) and the     *)
(* collection planner (getCollectPlans), as a state machine over one run   *)
(* of the build graph.                                                     *)
(***************************************************************************)
EXTENDS Integers, Sequences, FiniteSets, TLC

VARIABLES
    plansFiles,           \* build-plans.toml and private-build-plans.toml, parsed
    rawPlansState,        \* graph node metadata:raw-plans: "unevaluated" or "settled"
    rp,                   \* value of RawPlans: the merged configuration
    privateExists,        \* fs.existsSync(PRIVATE_BUILD_PLANS)
    g_widthFixupMemory,   \* the process-global Map of VlShapeWidth.fix
    warnings,             \* what echo.warn has printed, in order
    nodeBuildPlans,       \* graph node metadata:build-plans
    nodeStandardSuffixes, \* graph node metadata:standard-suffixes
    nodeCollectPlans,     \* graph node metadata:collect-plans
    nodeFontInfoOf,       \* graph nodes metadata:font-info-of, by file name
    fixCalls,             \* direct calls of VlShapeWidth.fix: argument and return
    goals,                \* the nodes the run was asked for
    taskNodes,            \* oracle, task and directory nodes requested, by name
    buildNodes,           \* file and group nodes requested, by rule and arguments
    commands              \* the commands started, in order

buildVars == <<goals, taskNodes, buildNodes, commands>>

vars == <<plansFiles, rawPlansState, rp, privateExists, g_widthFixupMemory, warnings,
          nodeBuildPlans, nodeStandardSuffixes, nodeCollectPlans, nodeFontInfoOf,
          fixCalls, goals, taskNodes, buildNodes, commands>>

(***************************************************************************)
(* Program constants (verdafile.js lines 18-35).                           *)
(***************************************************************************)
BUILD == ".build"
DIST == "dist"
ARCHIVE_DIR == "release-archives"
WIDTH_NORMAL == "normal"
WEIGHT_NORMAL == "regular"
SLOPE_NORMAL == "upright"
DEFAULT_SUBFAMILY == "regular"

(***************************************************************************)
(* JavaScript values of the numeric configuration fields.  A number is     *)
(* n + f/10 with f in 0..9 (n its floor); a missing field is undefined.    *)
(* tryParseToml passes the tables through JSON, so no NaN or Infinity      *)
(* reaches the validators.                                                 *)
(***************************************************************************)
Num(n) == [t |-> "number", n |-> n, f |-> 0]
NumF(n, f) == [t |-> "number", n |-> n, f |-> f]
Undefined == [t |-> "undefined", n |-> 0, f |-> 0]

\* x >= k, x <= k, x > k, x < k for an integer k; false when x is undefined
\* (undefined compares as NaN).
GE(x, k) == x.t = "number" /\ x.n >= k
LE(x, k) == x.t = "number" /\ (x.n < k \/ (x.n = k /\ x.f = 0))
GT(x, k) == x.t = "number" /\ (x.n > k \/ (x.n = k /\ x.f > 0))
LT(x, k) == x.t = "number" /\ x.n < k
\* x % 1 === 0
IsInteger(x) == x.t = "number" /\ x.f = 0

(***************************************************************************)
(* A JavaScript object used as a table: its keys in insertion order.       *)
(***************************************************************************)
Has(tbl, k) == \E i \in 1..Len(tbl) : tbl[i].k = k
Get(tbl, k) == tbl[CHOOSE i \in 1..Len(tbl) : tbl[i].k = k].v
Put(tbl, k, v) ==
    IF Has(tbl, k)
    THEN [i \in 1..Len(tbl) |-> IF tbl[i].k = k THEN [k |-> k, v |-> v] ELSE tbl[i]]
    ELSE Append(tbl, [k |-> k, v |-> v])
Keys(tbl) == [i \in 1..Len(tbl) |-> tbl[i].k]
KeySet(tbl) == {tbl[i].k : i \in 1..Len(tbl)}

\* An optional table (a property that may be undefined).
Absent == [has |-> FALSE, tbl |-> <<>>]
Some(tbl) == [has |-> TRUE, tbl |-> tbl]
OrElse_Second(a, b) == b

\* a || b for optional tables (any object, also an empty one, is truthy)
OrElse(a, b) == IF a.has THEN a ELSE b

(***************************************************************************)
(* Errors and warnings.                                                    *)
(***************************************************************************)
NoError == [kind |-> "none", key |-> "", v |-> Undefined, hint |-> FALSE]
\* TypeError(`${key} = ${v} is not a valid number.`)
NotAValidNumber(key, v) == [kind |-> "TypeError", key |-> key, v |-> v, hint |-> FALSE]
\* fail(`Build plan for ${prefix} does not have a family name. Exit.`)
NoFamilyName(prefix) == [kind |-> "NoFamilyName", key |-> prefix, v |-> Undefined, hint |-> FALSE]
\* TypeError reading a property of undefined
PropertyOfUndefined(key) == [kind |-> "PropertyOfUndefined", key |-> key, v |-> Undefined, hint |-> FALSE]

Warning(kind, key, label, v, v2) ==
    [kind |-> kind, key |-> key, label |-> label, v |-> v, v2 |-> v2]

\* The process-global state the validators read and write.
Glob(mem, log) == [mem |-> mem, log |-> log]
Warn(st, w) == Glob(st.mem, Append(st.log, w))

(***************************************************************************)
(* makeFileName, makeSuffix                                                *)
(***************************************************************************)
makeFileName(prefix, suffix) == prefix \o "-" \o suffix

makeSuffix(w, wd, s, fallback) ==
    LET str == (IF wd = WIDTH_NORMAL THEN "" ELSE wd)
               \o (IF w = WEIGHT_NORMAL THEN "" ELSE w)
               \o (IF s = SLOPE_NORMAL THEN "" ELSE s)
    IN IF str = "" THEN fallback ELSE str

(***************************************************************************)
(* Value validation (verdafile.js lines 947-978).                          *)
(***************************************************************************)
VlShapeWeight_validate_Open(x) == GT(x, 100) /\ LT(x, 900)

VlShapeWeight_validate(x) == GE(x, 100) /\ LE(x, 900)
VlCssWeight_validate(x) == GT(x, 0) /\ LT(x, 1000)
VlShapeWidth_validate(x) == GE(x, 433) /\ LE(x, 665)
VlMenuWidth_validate(x) == GE(x, 1) /\ LE(x, 9) /\ IsInteger(x)

\* The validator objects.  fixup is the truthiness of the property
\* validator.fixup that nValidate tests: none of the object literals defines
\* a property of that name (VlShapeWidth defines validate and fix).
VlShapeWeight == [name |-> "VlShapeWeight", fixup |-> FALSE]
VlCssWeight == [name |-> "VlCssWeight", fixup |-> FALSE]
VlMenuWeight == VlCssWeight
VlShapeWidth == [name |-> "VlShapeWidth", fixup |-> FALSE]
VlMenuWidth == [name |-> "VlMenuWidth", fixup |-> FALSE]

Validate(validator, x) ==
    CASE validator.name = "VlShapeWeight" -> VlShapeWeight_validate(x)
      [] validator.name = "VlCssWeight" -> VlCssWeight_validate(x)
      [] validator.name = "VlShapeWidth" -> VlShapeWidth_validate(x)
      [] validator.name = "VlMenuWidth" -> VlMenuWidth_validate(x)

RECURSIVE Pow(_, _)
Pow(b, e) == IF e = 0 THEN 1 ELSE b * Pow(b, e - 1)

RECURSIVE GCD(_, _)
GCD(a, b) == IF b = 0 THEN a ELSE GCD(b, a % b)

\* floor(sqrt(N)) by bisection on lo..hi (lo*lo <= N < (hi+1)*(hi+1))
RECURSIVE ISqrtIn(_, _, _)
ISqrtIn(N, lo, hi) ==
    IF lo = hi THEN lo
    ELSE LET mid == (lo + hi + 1) \div 2
         IN IF mid * mid <= N THEN ISqrtIn(N, mid, hi) ELSE ISqrtIn(N, lo, mid - 1)
ISqrt(N) == ISqrtIn(N, 0, 46340)

RoundedWidth_Truncates(d) ==
    LET m == IF d >= 0 THEN d ELSE -d
        A == IF d >= 0 THEN 500 * Pow(12, m) * Pow(5, m \div 2)
                       ELSE 500 * Pow(5, m) * Pow(5, m \div 2)
        B == IF d >= 0 THEN Pow(25, m) ELSE Pow(12, m)
        g == GCD(A, B)
        a == A \div g
        b == B \div g
    IN IF m % 2 = 0 THEN a \div b ELSE ISqrt(5 * a * a) \div b

\* Math.round(500 * Math.pow(Math.sqrt(576 / 500), d)) for a whole d, in exact
\* arithmetic: sqrt(576/500) = 12*sqrt(5)/25, so the product is
\* (A/B) * sqrt(5)^(|d| % 2) with A, B whole, and Math.round(y) = floor(y + 1/2).
RoundedWidth(d) ==
    LET m == IF d >= 0 THEN d ELSE -d
        A == IF d >= 0 THEN 500 * Pow(12, m) * Pow(5, m \div 2)
                       ELSE 500 * Pow(5, m) * Pow(5, m \div 2)
        B == IF d >= 0 THEN Pow(25, m) ELSE Pow(12, m)
        g == GCD(A, B)
        a == A \div g
        b == B \div g
    IN IF m % 2 = 0
       THEN (2 * a + b) \div (2 * b)
       ELSE (ISqrt(20 * a * a) + b) \div (2 * b)

\* const xCorrected = Math.round(500 * Math.pow(Math.sqrt(576 / 500), x - 5));
\* the grades the model draws are whole numbers.
xCorrected(x) == Num(RoundedWidth(x.n - 5))

MemHas(mem, x) == x \in DOMAIN mem
MemSet(mem, x, v) == [k \in DOMAIN mem \cup {x} |-> IF k = x THEN v ELSE mem[k]]

VlShapeWidth_fix_NoMemo(x, st) ==
    IF GE(x, 3) /\ LE(x, 9)
    THEN LET c == xCorrected(x)
         IN [v |-> c,
             st |-> Glob(MemSet(st.mem, x, c),
                         Append(st.log, Warning("legacy-width-grade", "", "", x, c)))]
    ELSE [v |-> x, st |-> st]

\* VlShapeWidth.fix: the value returned and the global state after the call.
VlShapeWidth_fix(x, st) ==
    IF GE(x, 3) /\ LE(x, 9)
    THEN IF MemHas(st.mem, x)
         THEN [v |-> st.mem[x], st |-> st]
         ELSE LET c == xCorrected(x)
              IN [v |-> c,
                  st |-> Glob(MemSet(st.mem, x, c),
                              Append(st.log, Warning("legacy-width-grade", "", "", x, c)))]
    ELSE [v |-> x, st |-> st]

\* validator.fix(v): VlShapeWidth is the one validator with a fix method.
Fix(validator, v, st) ==
    CASE validator.name = "VlShapeWidth" -> VlShapeWidth_fix(v, st)

\* What nValidate does with the value after its fixup step: r is [v, st].
nValidateChecked(key, validator, r) ==
    IF r.v.t # "number" \/ ~Validate(validator, r.v)
    THEN [ok |-> FALSE, v |-> r.v, err |-> NotAValidNumber(key, r.v), st |-> r.st]
    ELSE [ok |-> TRUE, v |-> r.v, err |-> NoError, st |-> r.st]

\* nValidate: ok with the value returned, or the TypeError thrown; st is the
\* global state after the call.  isFinite(v) holds of every number here.
nValidate(key, v, validator, st) ==
    nValidateChecked(key, validator,
        IF validator.fixup THEN Fix(validator, v, st) ELSE [v |-> v, st |-> st])

\* Recommended weight validation (lines 926-945): warns, never corrects.
RecommendedMenuWeights ==
    [k \in {"thin", "extralight", "light", "regular", "book", "medium",
            "semibold", "bold", "extrabold", "heavy"} |->
        CASE k = "thin" -> 100 [] k = "extralight" -> 200 [] k = "light" -> 300
          [] k = "regular" -> 400 [] k = "book" -> 450 [] k = "medium" -> 500
          [] k = "semibold" -> 600 [] k = "bold" -> 700 [] k = "extrabold" -> 800
          [] k = "heavy" -> 900]

validateRecommendedWeight(w, value, label, st) ==
    IF w \in DOMAIN RecommendedMenuWeights /\ Num(RecommendedMenuWeights[w]) # value
    THEN Warn(st, Warning("recommended-weight", w, label, value,
                          Num(RecommendedMenuWeights[w])))
    ELSE st

(***************************************************************************)
(* getSuffixMapping, getSuffixMappingItem (lines 206-239).                 *)
(* weights: table name -> [shape, css, menu]; slopes: table name -> string *)
(* widths: table name -> [shape, css, menu] with css a string.  A result   *)
(* is [ok, mapping, err, st]: the mapping returned, or the error thrown,   *)
(* and the global state after the call.                                    *)
(***************************************************************************)
\* s1 || s2 for strings
StrOr(s1, s2) == IF s1 # "" THEN s1 ELSE s2

\* The nValidate calls of getSuffixMappingItem, in the order the object
\* literal evaluates them.
ItemChecks(weights, w, widths, wd) ==
    << [key |-> "Shape weight of " \o w, v |-> Get(weights, w).shape,
        validator |-> VlShapeWeight],
       [key |-> "CSS weight of " \o w, v |-> Get(weights, w).css,
        validator |-> VlCssWeight],
       [key |-> "Menu weight of " \o w, v |-> Get(weights, w).menu,
        validator |-> VlMenuWeight],
       [key |-> "Shape width of " \o wd, v |-> Get(widths, wd).shape,
        validator |-> VlShapeWidth],
       [key |-> "Menu width of " \o wd, v |-> Get(widths, wd).menu,
        validator |-> VlMenuWidth] >>

\* acc is [ok, vals, err, st]; r the result of the next nValidate
ItemCheckDone(acc, r) ==
    IF r.ok
    THEN [ok |-> TRUE, vals |-> Append(acc.vals, r.v), err |-> NoError, st |-> r.st]
    ELSE [ok |-> FALSE, vals |-> acc.vals, err |-> r.err, st |-> r.st]

RECURSIVE ItemChecksLoop(_, _, _)
ItemChecksLoop(checks, i, acc) ==
    IF ~acc.ok \/ i > Len(checks) THEN acc
    ELSE ItemChecksLoop(checks, i + 1,
            ItemCheckDone(acc, nValidate(checks[i].key, checks[i].v,
                                         checks[i].validator, acc.st)))

\* The object getSuffixMappingItem returns, from the validated values c.vals.
ItemOf(w, slopes, s, widths, wd, c) ==
    IF ~c.ok THEN [ok |-> FALSE, item |-> <<>>, err |-> c.err, st |-> c.st]
    ELSE [ok |-> TRUE,
          item |-> [weight |-> w, shapeWeight |-> c.vals[1], cssWeight |-> c.vals[2],
                    menuWeight |-> c.vals[3],
                    width |-> wd, shapeWidth |-> c.vals[4],
                    cssStretch |-> StrOr(Get(widths, wd).css, wd),
                    menuWidth |-> c.vals[5],
                    slope |-> s, cssStyle |-> StrOr(Get(slopes, s), s),
                    menuSlope |-> StrOr(Get(slopes, s), s)],
          err |-> NoError, st |-> c.st]

getSuffixMappingItem(weights, w, slopes, s, widths, wd, st) ==
    ItemOf(w, slopes, s, widths, wd,
           ItemChecksLoop(ItemChecks(weights, w, widths, wd), 1,
                          [ok |-> TRUE, vals |-> <<>>, err |-> NoError, st |-> st]))

\* mapping[suffix] = item, or the error of getSuffixMappingItem
MappingPut(acc, suffix, r) ==
    IF r.ok
    THEN [ok |-> TRUE, mapping |-> Put(acc.mapping, suffix, r.item),
          err |-> NoError, st |-> r.st]
    ELSE [ok |-> FALSE, mapping |-> acc.mapping, err |-> r.err, st |-> r.st]

SlopeAt_Reversed(slopes, widths, j) ==
    slopes[Len(slopes) - ((j - 1) \div Len(widths))].k

\* The slope and the width of pair j of the two inner loops: slopes are the
\* middle loop, widths the inner one.
SlopeAt(slopes, widths, j) == slopes[((j - 1) \div Len(widths)) + 1].k
WidthAt(slopes, widths, j) == widths[((j - 1) % Len(widths)) + 1].k

RECURSIVE SuffixLoopInner(_, _, _, _, _, _)
SuffixLoopInner(weights, w, slopes, widths, j, acc) ==
    IF ~acc.ok \/ j > Len(slopes) * Len(widths) THEN acc
    ELSE SuffixLoopInner(weights, w, slopes, widths, j + 1,
            MappingPut(acc,
                makeSuffix(w, WidthAt(slopes, widths, j), SlopeAt(slopes, widths, j),
                           DEFAULT_SUBFAMILY),
                getSuffixMappingItem(weights, w, slopes, SlopeAt(slopes, widths, j),
                                     widths, WidthAt(slopes, widths, j), acc.st)))

\* acc with the global state st
WithState(acc, st) == [acc EXCEPT !.st = st]

\* The outer loop, from weight i.
RECURSIVE SuffixLoopOuter(_, _, _, _, _)
SuffixLoopOuter(weights, slopes, widths, i, acc) ==
    IF ~acc.ok \/ i > Len(weights) THEN acc
    ELSE SuffixLoopOuter(weights, slopes, widths, i + 1,
            SuffixLoopInner(weights, weights[i].k, slopes, widths, 1,
                WithState(acc,
                    validateRecommendedWeight(weights[i].k, weights[i].v.css, "CSS",
                        validateRecommendedWeight(weights[i].k, weights[i].v.menu,
                                                  "Menu", acc.st)))))

getSuffixMapping_Stateful(weights, slopes, widths, st) ==
    SuffixLoopOuter(IF st.log = <<>> THEN weights.tbl
                    ELSE [i \in 1..Len(weights.tbl) |->
                            weights.tbl[Len(weights.tbl) + 1 - i]],
                    slopes.tbl, widths.tbl, 1,
                    [ok |-> TRUE, mapping |-> <<>>, err |-> NoError, st |-> st])

\* getSuffixMapping of optional tables: for-in over undefined runs no iteration.
getSuffixMapping(weights, slopes, widths, st) ==
    SuffixLoopOuter(weights.tbl, slopes.tbl, widths.tbl, 1,
        [ok |-> TRUE, mapping |-> <<>>, err |-> NoError, st |-> st])

(***************************************************************************)
(* Build plan validation (lines 909-923).  A raw plan is                   *)
(* [family, weights, slopes, slants, widths]: family "" when the plan has  *)
(* none, the axis tables optional.                                         *)
(***************************************************************************)
(***************************************************************************)
(* RawPlans (lines 76-88).  A parsed file is a record of optional tables;  *)
(* plansFiles is [base, private], private.exists telling whether           *)
(* private-build-plans.toml is there.                                      *)
(***************************************************************************)
ObjectAssign_TargetWins(target, source) ==
    LET RECURSIVE Go(_, _)
        Go(acc, i) ==
            IF i > Len(source) THEN acc
            ELSE Go(IF Has(acc, source[i].k) THEN acc
                    ELSE Put(acc, source[i].k, source[i].v), i + 1)
    IN Go(target, 1)

\* Object.assign(target, source): the source's own keys in order, each set
\* on the target.
ObjectAssign(target, source) ==
    LET RECURSIVE Go(_, _)
        Go(acc, i) ==
            IF i > Len(source) THEN acc
            ELSE Go(Put(acc, source[i].k, source[i].v), i + 1)
    IN Go(target, 1)

\* x || {} for an optional table
OrEmpty(a) == IF a.has THEN a.tbl ELSE <<>>

\* The body of RawPlans: bp is the parsed base file, an object with a
\* buildPlans table; Object.assign ignores an undefined source.
RawPlansBody(bp, privateBP) ==
    IF privateBP.exists
    THEN [bp EXCEPT !.buildPlans = ObjectAssign(bp.buildPlans, OrEmpty(privateBP.buildPlans)),
                    !.buildOptions = Some(ObjectAssign(OrEmpty(bp.buildOptions),
                                                       OrEmpty(privateBP.buildOptions)))]
    ELSE [bp EXCEPT !.buildOptions = Some(OrEmpty(bp.buildOptions))]

validateAndShimBuildPlans_NoFamilyCheck(prefix, bp, dWeights, dSlopes, dWidths, st) ==
    [ok |-> TRUE,
     bp |-> [bp EXCEPT !.weights = OrElse(bp.weights, dWeights),
                       !.slopes = OrElse(bp.slopes, OrElse(bp.slants, dSlopes)),
                       !.widths = OrElse(bp.widths, dWidths)],
     err |-> NoError, st |-> st]

validateAndShimBuildPlans(prefix, bp, dWeights, dSlopes, dWidths, st) ==
    IF bp.family = ""
    THEN [ok |-> FALSE, bp |-> bp, err |-> NoFamilyName(prefix), st |-> st]
    ELSE [ok |-> TRUE,
          bp |-> [bp EXCEPT !.weights = OrElse(bp.weights, dWeights),
                            !.slopes = OrElse(bp.slopes, OrElse(bp.slants, dSlopes)),
                            !.widths = OrElse(bp.widths, dWidths)],
          err |-> NoError,
          st |-> IF ~bp.slopes.has /\ bp.slants.has
                 THEN Warn(st, Warning("legacy-slants", prefix, "", Undefined, Undefined))
                 ELSE st]

(***************************************************************************)
(* BuildPlans (lines 114-140).                                             *)
(***************************************************************************)
\* weights && !weights[sfi.weight]: a weight entry is an object, so truthy
SkipsWeight(weights, sfi) == weights.has /\ ~Has(weights.tbl, sfi.weight)
\* slopes && !slopes[sfi.slope]: a slope entry is a string, falsy when empty
SkipsSlope(slopes, sfi) ==
    slopes.has /\ ~(Has(slopes.tbl, sfi.slope) /\ Get(slopes.tbl, sfi.slope) # "")

\* bp.targets.push(fileName); fileNameToBpMap[fileName] = { prefix, suffix }
TargetPush(acc, prefix, suffix, fileName) ==
    [targets |-> Append(acc.targets, fileName),
     map |-> Put(acc.map, fileName, [prefix |-> prefix, suffix |-> suffix])]

\* for (const suffix in suffixMapping), from entry k; acc is [targets, map]
RECURSIVE TargetsLoop(_, _, _, _, _, _)
TargetsLoop(prefix, weights, slopes, suffixMapping, k, acc) ==
    IF k > Len(suffixMapping) THEN acc
    ELSE TargetsLoop(prefix, weights, slopes, suffixMapping, k + 1,
            IF SkipsWeight(weights, suffixMapping[k].v)
               \/ SkipsSlope(slopes, suffixMapping[k].v)
            THEN acc
            ELSE TargetPush(acc, prefix, suffixMapping[k].k,
                            makeFileName(prefix, suffixMapping[k].k)))

\* returnBuildPlans[prefix] = bp, with the targets and the index of tl
PlanDone(acc, prefix, bp, st, tl) ==
    [ok |-> TRUE, fileNameToBpMap |-> tl.map,
     buildPlans |-> Put(acc.buildPlans, prefix,
                        [family |-> bp.family, weights |-> bp.weights,
                         slopes |-> bp.slopes, slants |-> bp.slants,
                         widths |-> bp.widths, targets |-> tl.targets]),
     err |-> NoError, st |-> st]

\* Lines 124-137 for the shimmed plan bp, sm the result of getSuffixMapping.
PlanTargets(acc, prefix, bp, sm) ==
    IF ~sm.ok THEN [acc EXCEPT !.ok = FALSE, !.err = sm.err, !.st = sm.st]
    ELSE PlanDone(acc, prefix, bp, sm.st,
            TargetsLoop(prefix, bp.weights, bp.slopes, sm.mapping, 1,
                        [targets |-> <<>>, map |-> acc.fileNameToBpMap]))

\* Lines 121-137 for one plan, shim the result of validateAndShimBuildPlans.
PlanExpand(acc, prefix, shim) ==
    IF ~shim.ok THEN [acc EXCEPT !.ok = FALSE, !.err = shim.err, !.st = shim.st]
    ELSE PlanTargets(acc, prefix, shim.bp,
            getSuffixMapping(shim.bp.weights, shim.bp.slopes, shim.bp.widths, shim.st))

\* for (const prefix in rawBuildPlans), from plan i;
\* acc is [ok, fileNameToBpMap, buildPlans, err, st]
RECURSIVE PlansLoop(_, _, _)
PlansLoop(conf, i, acc) ==
    IF ~acc.ok \/ i > Len(conf.buildPlans) THEN acc
    ELSE PlansLoop(conf, i + 1,
            PlanExpand(acc, conf.buildPlans[i].k,
                validateAndShimBuildPlans(conf.buildPlans[i].k, conf.buildPlans[i].v,
                    conf.weights, conf.slopes, conf.widths, acc.st)))

\* The body of BuildPlans on the value of RawPlans.
BuildPlansBody(conf, st) ==
    PlansLoop(conf, 1, [ok |-> TRUE, fileNameToBpMap |-> <<>>, buildPlans |-> <<>>,
                        err |-> NoError, st |-> st])

(***************************************************************************)
(* BuildPlanOf, FontInfoOf (lines 142-204, 252-256).                       *)
(***************************************************************************)
whyBuildPlanIsnNotThere_Inverted(exists) == exists

\* TRUE when the "Possible reason" hint is returned; exists is
\* fs.existsSync(PRIVATE_BUILD_PLANS).
whyBuildPlanIsnNotThere(exists) == ~exists

\* fail(`Build plan for '${name}' not found.` + whyBuildPlanIsnNotThere(name));
\* hint: the "Possible reason" sentence is appended.
NotFound(name, exists) ==
    [kind |-> "NotFound", key |-> name, v |-> Undefined,
     hint |-> whyBuildPlanIsnNotThere(exists)]

\* The body of BuildPlanOf(gid) on the buildPlans table of BuildPlans.
BuildPlanOfBody(gid, buildPlans, exists) ==
    IF ~Has(buildPlans, gid)
    THEN [ok |-> FALSE, plan |-> <<>>, err |-> NotFound(gid, exists)]
    ELSE [ok |-> TRUE, plan |-> Get(buildPlans, gid), err |-> NoError]

\* The record FontInfoOf returns, from the plan bp and the mapping entry sfi.
\* The fields that come from the resolved axes and the family are kept; the
\* others pass plan options through unchanged.
FontInfoRecord(fileName, bp, sfi, version) ==
    [name |-> fileName,
     shape |-> [weight |-> sfi.shapeWeight, slope |-> sfi.slope,
                width |-> sfi.shapeWidth],
     menu |-> [family |-> bp.family, version |-> version, width |-> sfi.menuWidth,
               slope |-> sfi.menuSlope, weight |-> sfi.menuWeight],
     css |-> [weight |-> sfi.cssWeight, stretch |-> sfi.cssStretch,
              style |-> sfi.cssStyle]]

\* Lines 164-203: sm is getSuffixMapping(bp.weights, bp.slopes, bp.widths).
FontInfoFrom(fileName, suffix, bp, version, sm) ==
    IF ~sm.ok THEN [ok |-> FALSE, info |-> <<>>, err |-> sm.err, st |-> sm.st]
    ELSE [ok |-> TRUE,
          info |-> FontInfoRecord(fileName, bp, Get(sm.mapping, suffix), version),
          err |-> NoError, st |-> sm.st]

\* Lines 161-203: fi0 is fileNameToBpMap[fileName].
FontInfoOfPlan(fileName, fi0, buildPlans, version, exists, st) ==
    IF ~Has(buildPlans, fi0.prefix)
    THEN [ok |-> FALSE, info |-> <<>>, err |-> NotFound(fileName, exists), st |-> st]
    ELSE FontInfoFrom(fileName, fi0.suffix, Get(buildPlans, fi0.prefix), version,
            getSuffixMapping(Get(buildPlans, fi0.prefix).weights,
                             Get(buildPlans, fi0.prefix).slopes,
                             Get(buildPlans, fi0.prefix).widths, st))

\* The body of FontInfoOf(fileName) on the value of BuildPlans.
FontInfoOfBody(fileName, built, version, exists, st) ==
    IF ~Has(built.fileNameToBpMap, fileName)
    THEN [ok |-> FALSE, info |-> <<>>, err |-> NotFound(fileName, exists), st |-> st]
    ELSE FontInfoOfPlan(fileName, Get(built.fileNameToBpMap, fileName),
                        built.buildPlans, version, exists, st)

(***************************************************************************)
(* getCollectPlans, fnStandardTtc (lines 278-332).                         *)
(* A collect entry is [hasFrom, from]; the collect configuration is        *)
(* [has, distinguishWeights, distinguishWidths, distinguishSlope], has     *)
(* false when the configuration has no collectConfig table.                *)
(***************************************************************************)
fnStandardTtc(collectConfig, prefix, w, wd, s) ==
    prefix \o "-" \o
    makeSuffix(IF collectConfig.distinguishWeights THEN w ELSE WEIGHT_NORMAL,
               IF collectConfig.distinguishWidths THEN wd ELSE WIDTH_NORMAL,
               IF collectConfig.distinguishSlope THEN s ELSE SLOPE_NORMAL,
               DEFAULT_SUBFAMILY)

WithDistinguishWidths_Kept(config) ==
    [has |-> TRUE,
     distinguishWeights |-> config.has /\ config.distinguishWeights,
     distinguishWidths |-> config.has /\ config.distinguishWidths,
     distinguishSlope |-> config.has /\ config.distinguishSlope]

\* { ...config, distinguishWidths: true }
WithDistinguishWidths(config) ==
    [has |-> TRUE,
     distinguishWeights |-> config.has /\ config.distinguishWeights,
     distinguishWidths |-> TRUE,
     distinguishSlope |-> config.has /\ config.distinguishSlope]

Push_Front(tbl, key, x) ==
    Put(tbl, key, IF Has(tbl, key) THEN <<x>> \o Get(tbl, key) ELSE <<x>>)

\* table[key].push(x), after table[key] = [] when there is no list yet
Push(tbl, key, x) == Put(tbl, key, IF Has(tbl, key) THEN Append(Get(tbl, key), x) ELSE <<x>>)

\* Set.add and Set.has on a Set kept in insertion order
SetHas(seq, x) == \E i \in 1..Len(seq) : seq[i] = x
SetAdd(seq, x) == IF SetHas(seq, x) THEN seq ELSE Append(seq, x)

CollectPush_NoGlyf(acc, prefix, ttfTargetName, ttcFileName, glyfTtcFileName) ==
    [acc EXCEPT !.ttc = Push(acc.ttc, ttcFileName, glyfTtcFileName),
                !.files = SetAdd(acc.files, ttcFileName)]

\* Lines 311-316; acc is [ok, glyf, ttc, files, err]
CollectPush(acc, prefix, ttfTargetName, ttcFileName, glyfTtcFileName) ==
    [acc EXCEPT !.glyf = Push(acc.glyf, glyfTtcFileName,
                              [dir |-> prefix, file |-> ttfTargetName]),
                !.ttc = Push(acc.ttc, ttcFileName, glyfTtcFileName),
                !.files = SetAdd(acc.files, ttcFileName)]

CollectSuffix_NoSkip(acc, collectPrefix, prefix, targets, config, suffix, sfi) ==
    CASE ~config.has ->
            [acc EXCEPT !.ok = FALSE, !.err = PropertyOfUndefined("distinguishWeights")]
      [] OTHER ->
            CollectPush(acc, prefix, makeFileName(prefix, suffix),
                fnStandardTtc(config, collectPrefix, sfi.weight, sfi.width, sfi.slope),
                fnStandardTtc(WithDistinguishWidths(config), collectPrefix,
                              sfi.weight, sfi.width, sfi.slope))

\* Lines 292-316 for one suffix and its mapping entry sfi.  fnFileName reads
\* config.distinguishWeights first: a TypeError when config is undefined.
CollectSuffix(acc, collectPrefix, prefix, targets, config, suffix, sfi) ==
    CASE ~config.has ->
            [acc EXCEPT !.ok = FALSE, !.err = PropertyOfUndefined("distinguishWeights")]
      [] config.has /\ ~SetHas(targets, makeFileName(prefix, suffix)) -> acc
      [] OTHER ->
            CollectPush(acc, prefix, makeFileName(prefix, suffix),
                fnStandardTtc(config, collectPrefix, sfi.weight, sfi.width, sfi.slope),
                fnStandardTtc(WithDistinguishWidths(config), collectPrefix,
                              sfi.weight, sfi.width, sfi.slope))

\* for (const suffix in suffixMapping), from entry k, for the source plan
\* prefix with the targets given
RECURSIVE CollectSuffixLoop(_, _, _, _, _, _, _)
CollectSuffixLoop(collectPrefix, prefix, targets, suffixMapping, config, k, acc) ==
    IF ~acc.ok \/ k > Len(suffixMapping) THEN acc
    ELSE CollectSuffixLoop(collectPrefix, prefix, targets, suffixMapping, config, k + 1,
            CollectSuffix(acc, collectPrefix, prefix, targets, config,
                          suffixMapping[k].k, suffixMapping[k].v))

\* Lines 289-317 for one source plan: gri is the outcome of
\* target.need(BuildPlanOf(prefix)).
CollectSource(acc, collectPrefix, prefix, gri, suffixMapping, config) ==
    IF ~gri.ok THEN [acc EXCEPT !.ok = FALSE, !.err = gri.err]
    ELSE CollectSuffixLoop(collectPrefix, prefix, gri.plan.targets, suffixMapping,
                           config, 1, acc)

\* The node BuildPlanOf(prefix): a failed BuildPlans fails it with its error.
NeedBuildPlanOf(prefix, built, exists) ==
    IF built.state = "failed" THEN [ok |-> FALSE, plan |-> <<>>, err |-> built.err]
    ELSE BuildPlanOfBody(prefix, built.value.buildPlans, exists)

\* for (const prefix of collect.from), from position j
RECURSIVE CollectFromLoop(_, _, _, _, _, _, _, _)
CollectFromLoop(collectPrefix, from, built, exists, suffixMapping, config, j, acc) ==
    IF ~acc.ok \/ j > Len(from) THEN acc
    ELSE CollectFromLoop(collectPrefix, from, built, exists, suffixMapping, config, j + 1,
            CollectSource(acc, collectPrefix, from[j],
                          NeedBuildPlanOf(from[j], built, exists), suffixMapping, config))

\* Lines 319-320: r is the outcome of the loop over collect.from.
CollectDone(acc, collectPrefix, collect, r) ==
    IF ~r.ok THEN [acc EXCEPT !.ok = FALSE, !.err = r.err]
    ELSE [ok |-> TRUE, glyfTtcComposition |-> r.glyf, ttcComposition |-> r.ttc,
          ttcContents |-> Put(acc.ttcContents, collectPrefix, r.files),
          groupDecomposition |-> Put(acc.groupDecomposition, collectPrefix, collect.from),
          err |-> NoError]

\* Lines 284-320 for one collect entry.
CollectOne(acc, collectPrefix, collect, built, exists, suffixMapping, config) ==
    IF ~collect.hasFrom \/ Len(collect.from) = 0 THEN acc
    ELSE CollectDone(acc, collectPrefix, collect,
            CollectFromLoop(collectPrefix, collect.from, built, exists, suffixMapping,
                config, 1,
                [ok |-> TRUE, glyf |-> acc.glyfTtcComposition,
                 ttc |-> acc.ttcComposition, files |-> <<>>, err |-> NoError]))

\* for (const collectPrefix in rawCollectPlans), from entry i;
\* acc is [ok, glyfTtcComposition, ttcComposition, ttcContents, groupDecomposition, err]
RECURSIVE CollectLoop(_, _, _, _, _, _, _)
CollectLoop(rawCollectPlans, built, exists, suffixMapping, config, i, acc) ==
    IF ~acc.ok \/ i > Len(rawCollectPlans) THEN acc
    ELSE CollectLoop(rawCollectPlans, built, exists, suffixMapping, config, i + 1,
            CollectOne(acc, rawCollectPlans[i].k, rawCollectPlans[i].v, built, exists,
                       suffixMapping, config))

getCollectPlans(rawCollectPlans, built, exists, suffixMapping, config) ==
    CollectLoop(rawCollectPlans, built, exists, suffixMapping, config, 1,
        [ok |-> TRUE, glyfTtcComposition |-> <<>>, ttcComposition |-> <<>>,
         ttcContents |-> <<>>, groupDecomposition |-> <<>>, err |-> NoError])

\* Does getCollectPlans reach a target.need(BuildPlanOf(prefix))?
NeedsBuildPlanOf(rawCollectPlans) ==
    \E i \in 1..Len(rawCollectPlans) :
        rawCollectPlans[i].v.hasFrom /\ Len(rawCollectPlans[i].v.from) > 0

(***************************************************************************)
(* Bounds and the configurations a run starts from.                        *)
(***************************************************************************)
MaxPlans == 2        \* build plans in a configuration
MaxFontInfo == 1     \* FontInfoOf nodes requested in a run
MaxFixCalls == 3     \* direct calls of VlShapeWidth.fix

W(shape, css, menu) == [shape |-> shape, css |-> css, menu |-> menu]
E(k, v) == [k |-> k, v |-> v]

wRegular == E("regular", W(Num(400), Num(400), Num(400)))
wBold == E("bold", W(Num(700), Num(700), Num(700)))
wExtraBold == E("extra-bold", W(Num(800), Num(800), Num(800)))
wdNormal == E("normal", W(Num(500), "normal", Num(5)))
wdExtended == E("extended", W(Num(576), "expanded", Num(7)))

\* Global weights, slopes, widths: the shipped shape; an upright slope with
\* an empty value; a slope that is named like the default subfamily; and a
\* configuration without a widths table.
GlobalAxes ==
    { [weights |-> Some(<<wRegular, wBold, wExtraBold>>),
       slopes |-> Some(<<E("upright", "normal"), E("italic", "italic")>>),
       widths |-> Some(<<wdNormal, wdExtended>>)],
      [weights |-> Some(<<wRegular, wBold>>),
       slopes |-> Some(<<E("upright", ""), E("italic", "italic")>>),
       widths |-> Some(<<wdNormal>>)],
      [weights |-> Some(<<wRegular, wBold>>),
       slopes |-> Some(<<E("regular", "normal"), E("italic", "italic")>>),
       widths |-> Some(<<wdNormal>>)],
      [weights |-> Some(<<wRegular>>),
       slopes |-> Some(<<E("upright", "normal")>>),
       widths |-> Absent] }

Plan(family, weights, slopes, slants, widths) ==
    [family |-> family, weights |-> weights, slopes |-> slopes, slants |-> slants,
     widths |-> widths]

PlanInherit == Plan("Sans", Absent, Absent, Absent, Absent)
PlanNoFamily == Plan("", Absent, Absent, Absent, Absent)
PlanOwn == Plan("Own", Some(<<wRegular>>), Some(<<E("upright", "normal")>>), Absent,
                Some(<<wdNormal>>))
PlanEmptySlope == Plan("Empty", Some(<<wRegular>>), Some(<<E("upright", "")>>), Absent,
                       Some(<<wdNormal>>))
PlanSlants == Plan("Slants", Absent, Absent,
                   Some(<<E("upright", "normal"), E("oblique", "oblique")>>), Absent)
PlanBadWeight == Plan("Bad", Some(<<E("regular", W(Num(950), Num(400), Num(400)))>>),
                      Absent, Absent, Absent)

PlanPool == {PlanInherit, PlanNoFamily, PlanOwn, PlanEmptySlope, PlanSlants, PlanBadWeight}
Prefixes == {"sans", "sans-extra", "serif"}

\* Tables of 1..MaxPlans plans under distinct prefixes, in any order.
PlanTables ==
    UNION {{t \in [1..n -> {E(p, b) : p \in Prefixes, b \in PlanPool}] :
                \A i, j \in 1..n : i # j => t[i].k # t[j].k} : n \in 1..MaxPlans}

NoCollectConfig ==
    [has |-> FALSE, distinguishWeights |-> FALSE, distinguishWidths |-> FALSE,
     distinguishSlope |-> FALSE]
CollectConfigs ==
    {NoCollectConfig} \cup
    {[has |-> TRUE, distinguishWeights |-> a, distinguishWidths |-> b,
      distinguishSlope |-> c] : a, b, c \in BOOLEAN}

From(seq) == [hasFrom |-> TRUE, from |-> seq]
NoFrom == [hasFrom |-> FALSE, from |-> <<>>]
CollectTables ==
    { <<E("all", From(<<"sans", "sans-extra">>))>>,
      <<E("one", From(<<"sans">>)), E("none", NoFrom)>>,
      <<E("dup", From(<<"sans", "sans">>))>>,
      <<E("lost", From(<<"nosuch">>))>>,
      <<E("a", From(<<"sans">>)), E("b", From(<<"sans-extra", "sans">>))>> }

Conf(buildPlans, axes, collectPlans, collectConfig) ==
    [buildPlans |-> buildPlans, buildOptions |-> Absent, weights |-> axes.weights,
     slopes |-> axes.slopes, widths |-> axes.widths, collectPlans |-> collectPlans,
     collectConfig |-> collectConfig]

\* Any plan table over any global axes, nothing collected.
PlanConfs ==
    {Conf(t, a, <<>>, NoCollectConfig) : t \in PlanTables, a \in GlobalAxes}

\* Two plans that expand, collected in every way.
CollectConfs ==
    {Conf(<<E("sans", PlanInherit), E("sans-extra", b)>>, a, c, cc) :
        b \in {PlanOwn, PlanSlants}, a \in GlobalAxes, c \in CollectTables,
        cc \in CollectConfigs}

\* One plan over one weight, slope and width, each numeric field at and
\* next to the ends of its range; shape width also at legacy grades.
ShapeWeights == {Num(99), Num(100), Num(900), Num(950)}
CssWeights == {Num(0), NumF(0, 5), NumF(999, 9), Num(1000)}
MenuWeights == {Num(0), Num(400), Undefined}
ShapeWidths == {Num(432), Num(433), Num(665), NumF(665, 1), Num(3), Num(5), Num(9)}
MenuWidths == {Num(0), Num(1), NumF(5, 5), Num(9), Num(10)}
RangeConfs ==
    {Conf(<<E("sans", PlanInherit)>>,
          [weights |-> Some(<<E("regular", W(a, b, c))>>),
           slopes |-> Some(<<E("upright", "normal")>>),
           widths |-> Some(<<E("normal", W(d, "", e))>>)],
          <<>>, NoCollectConfig) :
        a \in ShapeWeights, b \in CssWeights, c \in MenuWeights,
        d \in ShapeWidths, e \in MenuWidths}

\* The private overlay file: absent, or there with the tables given.
Overlay(buildPlans, buildOptions, weights) ==
    [exists |-> TRUE, buildPlans |-> buildPlans, buildOptions |-> buildOptions,
     weights |-> weights]
NoOverlay ==
    [exists |-> FALSE, buildPlans |-> Absent, buildOptions |-> Absent, weights |-> Absent]
EmptyOverlay == Overlay(Absent, Absent, Absent)

\* An option's value is a string, "" standing for a false or missing one.
\* Base files with two plans and with or without buildOptions, under overlays
\* that replace a plan, add plans, set options and carry a weights table.
OverlayBases ==
    {[Conf(<<E("sans", PlanInherit), E("serif", PlanOwn)>>, a, <<>>, NoCollectConfig)
        EXCEPT !.buildOptions = o] :
        a \in {x \in GlobalAxes : Len(x.weights.tbl) = 3},
        o \in {Absent, Some(<<>>),
               Some(<<E("optimizeWithTtx", "true"), E("optimizeWithFilter", "")>>)}}
Overlays ==
    {Overlay(p, o, w) :
        p \in {Absent, Some(<<E("sans", PlanOwn)>>), Some(<<E("sans-extra", PlanSlants)>>),
               Some(<<E("serif", PlanNoFamily), E("sans", PlanSlants)>>)},
        o \in {Absent, Some(<<E("optimizeWithFilter", "filter -x"),
                              E("optimizeWithTtx", "")>>)},
        w \in {Absent, Some(<<wBold>>)}}

\* A run starts from the two files: any plan table with no overlay file or
\* an empty one, the collect and range configurations with none, and the
\* overlay bases under every overlay.
Runs ==
    {[base |-> c, private |-> o] : c \in PlanConfs, o \in {NoOverlay, EmptyOverlay}}
    \cup {[base |-> c, private |-> NoOverlay] : c \in CollectConfs \cup RangeConfs}
    \cup {[base |-> c, private |-> o] : c \in OverlayBases, o \in Overlays \cup {NoOverlay}}

FileNames == {"sans-regular", "sans-extra-bold", "sans-thin"}
FixInputs == {Num(n) : n \in 2..10} \cup {Num(500), Undefined}
\* the value of the oracle Version
PackageVersion == "1.0.0"

(***************************************************************************)
(* The graph nodes and their evaluation.                                   *)
(***************************************************************************)
NoBuilt == [fileNameToBpMap |-> <<>>, buildPlans |-> <<>>]
NoCollect == [glyfTtcComposition |-> <<>>, ttcComposition |-> <<>>,
              ttcContents |-> <<>>, groupDecomposition |-> <<>>]
Unevaluated(v) == [state |-> "unevaluated", value |-> v, err |-> NoError]
Settled(v) == [state |-> "settled", value |-> v, err |-> NoError]
Failed(v, err) == [state |-> "failed", value |-> v, err |-> err]

\* The value of a node that has not been evaluated.
NoConf ==
    Conf(<<>>, [weights |-> Absent, slopes |-> Absent, widths |-> Absent], <<>>,
         NoCollectConfig)

Init ==
    /\ \E run \in Runs : plansFiles = run /\ privateExists = run.private.exists
    /\ rawPlansState = "unevaluated"
    /\ rp = NoConf
    /\ g_widthFixupMemory = <<>>
    /\ warnings = <<>>
    /\ nodeBuildPlans = Unevaluated(NoBuilt)
    /\ nodeStandardSuffixes = Unevaluated(<<>>)
    /\ nodeCollectPlans = Unevaluated(NoCollect)
    /\ nodeFontInfoOf = <<>>
    /\ fixCalls = <<>>
    /\ goals = {}
    /\ taskNodes = <<>>
    /\ buildNodes = <<>>
    /\ commands = <<>>

\* RawPlans: reads the two files and settles with the merged configuration.
EvalRawPlans ==
    /\ rawPlansState = "unevaluated"
    /\ rawPlansState' = "settled"
    /\ rp' = RawPlansBody(plansFiles.base, plansFiles.private)
    /\ UNCHANGED <<plansFiles, privateExists, g_widthFixupMemory, warnings,
                   nodeBuildPlans, nodeStandardSuffixes, nodeCollectPlans,
                   nodeFontInfoOf, fixCalls>>
    /\ UNCHANGED buildVars

\* The node BuildPlans settles with, or fails with, the outcome r of its body.
BuildPlansSettles(r) ==
    /\ nodeBuildPlans' =
            IF r.ok
            THEN Settled([fileNameToBpMap |-> r.fileNameToBpMap,
                          buildPlans |-> r.buildPlans])
            ELSE Failed(NoBuilt, r.err)
    /\ g_widthFixupMemory' = r.st.mem
    /\ warnings' = r.st.log

\* BuildPlans: its body runs once RawPlans has settled.
EvalBuildPlans ==
    /\ rawPlansState = "settled"
    /\ nodeBuildPlans.state = "unevaluated"
    /\ BuildPlansSettles(BuildPlansBody(rp, Glob(g_widthFixupMemory, warnings)))
    /\ UNCHANGED <<plansFiles, rawPlansState, rp, privateExists,
                   nodeStandardSuffixes, nodeCollectPlans, nodeFontInfoOf, fixCalls>>
    /\ UNCHANGED buildVars

StandardSuffixesSettles(r) ==
    /\ nodeStandardSuffixes' = IF r.ok THEN Settled(r.mapping) ELSE Failed(<<>>, r.err)
    /\ g_widthFixupMemory' = r.st.mem
    /\ warnings' = r.st.log

\* StandardSuffixes (lines 273-276)
EvalStandardSuffixes ==
    /\ rawPlansState = "settled"
    /\ nodeStandardSuffixes.state = "unevaluated"
    /\ StandardSuffixesSettles(getSuffixMapping(rp.weights, rp.slopes, rp.widths,
                                                Glob(g_widthFixupMemory, warnings)))
    /\ UNCHANGED <<plansFiles, rawPlansState, rp, privateExists, nodeBuildPlans,
                   nodeCollectPlans, nodeFontInfoOf, fixCalls>>
    /\ UNCHANGED buildVars

CollectPlansSettles(r) ==
    nodeCollectPlans' =
        IF r.ok
        THEN Settled([glyfTtcComposition |-> r.glyfTtcComposition,
                      ttcComposition |-> r.ttcComposition,
                      ttcContents |-> r.ttcContents,
                      groupDecomposition |-> r.groupDecomposition])
        ELSE Failed(NoCollect, r.err)

\* CollectPlans (lines 258-271): needs StandardSuffixes, and BuildPlanOf of
\* each source plan, so BuildPlans, before its loops go on.
EvalCollectPlans ==
    /\ nodeCollectPlans.state = "unevaluated"
    /\ nodeStandardSuffixes.state # "unevaluated"
    /\ \/ nodeStandardSuffixes.state = "failed"
       \/ ~NeedsBuildPlanOf(rp.collectPlans)
       \/ nodeBuildPlans.state # "unevaluated"
    /\ IF nodeStandardSuffixes.state = "failed"
       THEN nodeCollectPlans' = Failed(NoCollect, nodeStandardSuffixes.err)
       ELSE CollectPlansSettles(
                getCollectPlans(rp.collectPlans, nodeBuildPlans, privateExists,
                                nodeStandardSuffixes.value, rp.collectConfig))
    /\ UNCHANGED <<plansFiles, rawPlansState, rp, privateExists, g_widthFixupMemory,
                   warnings, nodeBuildPlans, nodeStandardSuffixes, nodeFontInfoOf,
                   fixCalls>>
    /\ UNCHANGED buildVars

FontInfoOfSettles(fileName, r) ==
    /\ nodeFontInfoOf' =
            MemSet(nodeFontInfoOf, fileName,
                   IF r.ok THEN Settled(r.info) ELSE Failed(<<>>, r.err))
    /\ g_widthFixupMemory' = r.st.mem
    /\ warnings' = r.st.log

\* FontInfoOf(fileName): needs BuildPlans and Version; a failed BuildPlans
\* fails it with the same error.
EvalFontInfoOf(fileName) ==
    /\ fileName \notin DOMAIN nodeFontInfoOf
    /\ Cardinality(DOMAIN nodeFontInfoOf) < MaxFontInfo
    /\ nodeBuildPlans.state # "unevaluated"
    /\ IF nodeBuildPlans.state = "failed"
       THEN /\ nodeFontInfoOf' =
                 MemSet(nodeFontInfoOf, fileName, Failed(<<>>, nodeBuildPlans.err))
            /\ UNCHANGED <<g_widthFixupMemory, warnings>>
       ELSE FontInfoOfSettles(fileName,
                FontInfoOfBody(fileName, nodeBuildPlans.value, PackageVersion,
                               privateExists, Glob(g_widthFixupMemory, warnings)))
    /\ UNCHANGED <<plansFiles, rawPlansState, rp, privateExists, nodeBuildPlans,
                   nodeStandardSuffixes, nodeCollectPlans, fixCalls>>
    /\ UNCHANGED buildVars

Next ==
    \/ EvalRawPlans
    \/ EvalBuildPlans
    \/ EvalStandardSuffixes
    \/ EvalCollectPlans
    \/ \E fileName \in FileNames : EvalFontInfoOf(fileName)

Spec == Init /\ [][Next]_vars

(***************************************************************************)
(* VlShapeWidth.fix called on its own, any number of times in one process. *)
(***************************************************************************)
InitFix ==
    /\ plansFiles = [base |-> NoConf, private |-> NoOverlay]
    /\ rawPlansState = "unevaluated"
    /\ rp = NoConf
    /\ privateExists = FALSE
    /\ g_widthFixupMemory = <<>>
    /\ warnings = <<>>
    /\ nodeBuildPlans = Unevaluated(NoBuilt)
    /\ nodeStandardSuffixes = Unevaluated(<<>>)
    /\ nodeCollectPlans = Unevaluated(NoCollect)
    /\ nodeFontInfoOf = <<>>
    /\ fixCalls = <<>>
    /\ goals = {}
    /\ taskNodes = <<>>
    /\ buildNodes = <<>>
    /\ commands = <<>>

FixReturns(x, r) ==
    /\ g_widthFixupMemory' = r.st.mem
    /\ warnings' = r.st.log
    /\ fixCalls' = Append(fixCalls, [x |-> x, v |-> r.v,
                                     warned |-> Len(r.st.log) > Len(warnings)])

CallFix(x) ==
    /\ Len(fixCalls) < MaxFixCalls
    /\ FixReturns(x, VlShapeWidth_fix(x, Glob(g_widthFixupMemory, warnings)))
    /\ UNCHANGED <<plansFiles, rawPlansState, rp, privateExists, nodeBuildPlans,
                   nodeStandardSuffixes, nodeCollectPlans, nodeFontInfoOf>>
    /\ UNCHANGED buildVars

NextFix == \E x \in FixInputs : CallFix(x)

SpecFix == InitFix /\ [][NextFix]_vars

(***************************************************************************)
(* The file and group nodes (lines 338-587).  A node is named by its rule  *)
(* and its two arguments; a body is a list of stages, each a need and the  *)
(* commands run once the need has settled.                                 *)
(***************************************************************************)
Ref(kind, a, b) == [kind |-> kind, a |-> a, b |-> b]

\* The path functions of the file.make rules.
BuildRawTtf_path(gr, fn) == BUILD \o "/ttf/" \o gr \o "/" \o fn \o ".raw.ttf"
BuildTTF_path(gr, fn) == BUILD \o "/ttf/" \o gr \o "/" \o fn \o ".ttf"
BuildCM_path(gr, f) == BUILD \o "/ttf/" \o gr \o "/" \o f \o ".charmap"
DistUnhintedTTF_path(gr, fn) == DIST \o "/" \o gr \o "/ttf-unhinted/" \o fn \o ".ttf"
DistHintedTTF_path(gr, fn) == DIST \o "/" \o gr \o "/ttf/" \o fn \o ".ttf"
ExportTtcFile_path(gr, f) == BUILD \o "/ttc-collect/" \o gr \o "/ttc/" \o f \o ".ttc"
glyfTtc_path(gr, f) == BUILD \o "/glyf-ttc/" \o gr \o "/" \o f \o ".ttc"
CollectionArchiveFile_path(gr, version) ==
    ARCHIVE_DIR \o "/pkg-" \o gr \o "-" \o version \o ".zip"
TtcOnlyCollectionArchiveFile_path(gr, version) ==
    ARCHIVE_DIR \o "/ttc-" \o gr \o "-" \o version \o ".zip"
GroupTtfArchiveFile_path(gid, version) ==
    ARCHIVE_DIR \o "/ttf-" \o gid \o "-" \o version \o ".zip"
GroupTtfUnhintedArchiveFile_path(gid, version) ==
    ARCHIVE_DIR \o "/ttf-unhinted-" \o gid \o "-" \o version \o ".zip"
GroupWebArchiveFile_path(gid, version) ==
    ARCHIVE_DIR \o "/webfont-" \o gid \o "-" \o version \o ".zip"

FileRules ==
    {"BuildRawTtf", "BuildTTF", "BuildCM", "DistUnhintedTTF", "DistHintedTTF",
     "ExportTtcFile", "glyfTtc", "CollectionArchiveFile",
     "TtcOnlyCollectionArchiveFile", "GroupTtfArchiveFile",
     "GroupTtfUnhintedArchiveFile", "GroupWebArchiveFile"}

\* The output path the rule of a file node gives it; a group node has none.
PathOf(ref) ==
    CASE ref.kind = "BuildRawTtf" -> BuildRawTtf_path(ref.a, ref.b)
      [] ref.kind = "BuildTTF" -> BuildTTF_path(ref.a, ref.b)
      [] ref.kind = "BuildCM" -> BuildCM_path(ref.a, ref.b)
      [] ref.kind = "DistUnhintedTTF" -> DistUnhintedTTF_path(ref.a, ref.b)
      [] ref.kind = "DistHintedTTF" -> DistHintedTTF_path(ref.a, ref.b)
      [] ref.kind = "ExportTtcFile" -> ExportTtcFile_path(ref.a, ref.b)
      [] ref.kind = "glyfTtc" -> glyfTtc_path(ref.a, ref.b)
      [] ref.kind = "CollectionArchiveFile" -> CollectionArchiveFile_path(ref.a, ref.b)
      [] ref.kind = "TtcOnlyCollectionArchiveFile" ->
            TtcOnlyCollectionArchiveFile_path(ref.a, ref.b)
      [] ref.kind = "GroupTtfArchiveFile" -> GroupTtfArchiveFile_path(ref.a, ref.b)
      [] ref.kind = "GroupTtfUnhintedArchiveFile" ->
            GroupTtfUnhintedArchiveFile_path(ref.a, ref.b)
      [] ref.kind = "GroupWebArchiveFile" -> GroupWebArchiveFile_path(ref.a, ref.b)
      [] OTHER -> ""

\* output.dir: the directory part of the node's path
DirOf(ref) ==
    CASE ref.kind \in {"BuildRawTtf", "BuildTTF", "BuildCM"} -> BUILD \o "/ttf/" \o ref.a
      [] ref.kind = "DistUnhintedTTF" -> DIST \o "/" \o ref.a \o "/ttf-unhinted"
      [] ref.kind = "DistHintedTTF" -> DIST \o "/" \o ref.a \o "/ttf"
      [] ref.kind = "ExportTtcFile" -> BUILD \o "/ttc-collect/" \o ref.a \o "/ttc"
      [] ref.kind = "glyfTtc" -> BUILD \o "/glyf-ttc/" \o ref.a
      [] OTHER -> ARCHIVE_DIR

\* de`${dir}`, and the nodes without arguments
De(dir) == Ref("de", dir, "")
Node0(kind) == Ref(kind, "", "")

\* A command started by run, node, cp, mv or rm: the tool, the node whose
\* body starts it, the input paths in argument order and the path it
\* writes, "" for rm, which writes none.
CmdTo(tool, ref, inputs, output) ==
    [tool |-> tool, node |-> ref, inputs |-> inputs, output |-> output]
\* A command that writes the file of its node (output.full)
Cmd(tool, ref, inputs) ==
    CmdTo(tool, ref, inputs, IF tool = "rm" THEN "" ELSE PathOf(ref))

\* A stage: what the body needs next and the commands it runs after that
\* need; throws when the code before the need raises a TypeError.
Stage(needs, then) == [throws |-> FALSE, needs |-> needs, then |-> then]
Throws == [throws |-> TRUE, needs |-> {}, then |-> <<>>]

\* Array.from(new Set(list)): the first occurrence of each element, in order
RECURSIVE DedupeFrom(_, _, _)
DedupeFrom(list, i, acc) ==
    IF i > Len(list) THEN acc ELSE DedupeFrom(list, i + 1, SetAdd(acc, list[i]))
Dedupe(list) == DedupeFrom(list, 1, <<>>)

\* table[key], an empty list standing for undefined where the caller wraps
\* it in new Set(...)
GetOrEmpty(tbl, key) == IF Has(tbl, key) THEN Get(tbl, key) ELSE <<>>

\* rp.buildOptions[name], "" when it is not set
BuildOption(name) == GetOrEmpty(rp.buildOptions.tbl, name)
\* the value of the oracle HasTtx, read once it has settled
HasTtxValue == taskNodes[Node0("HasTtx")].value = "true"

\* ExportPlans (lines 105-112): result[s] = s for every source of every
\* collection; exportPlans[gid] is undefined for any other gid.
ExportPlanOf(gid) ==
    IF \E src \in {x \in UNION {{e.v.from[j] : j \in 1..Len(e.v.from)} :
                                    e \in {rp.collectPlans[i] : i \in 1..Len(rp.collectPlans)}} :
                        x = gid} : TRUE
    THEN gid ELSE "undefined"

BuildRawTtf_body_NoFontInfo(ref, k) ==
    CASE k = 1 -> Stage({Node0("Version")}, <<>>)
      [] k = 2 -> Stage({Node0("Scripts"), Node0("Parameters"), De(DirOf(ref))},
                        <<Cmd("font-src/index", ref, <<>>)>>)

\* BuildRawTtf (lines 338-346)
BuildRawTtf_body(ref, k) ==
    CASE k = 1 -> Stage({Ref("FontInfoOf", ref.b, ""), Node0("Version")}, <<>>)
      [] k = 2 -> Stage({Node0("Scripts"), Node0("Parameters"), De(DirOf(ref))},
                        <<Cmd("font-src/index", ref, <<>>)>>)

BuildTTF_body_TtxFirst(ref, k) ==
    CASE k = 1 -> Stage({Node0("OptimizeWithFilter"), Node0("OptimizeWithTtx"),
                         De(DirOf(ref))}, <<>>)
      [] k = 2 ->
            Stage({Ref("BuildRawTtf", ref.a, ref.b)},
                  IF HasTtxValue /\ BuildOption("optimizeWithTtx") # ""
                  THEN <<CmdTo("ttx", ref, <<BuildRawTtf_path(ref.a, ref.b)>>,
                               DirOf(ref) \o "/" \o ref.b \o ".temp.ttx"),
                         Cmd("rm", ref, <<BuildRawTtf_path(ref.a, ref.b)>>),
                         Cmd("ttx", ref, <<DirOf(ref) \o "/" \o ref.b \o ".temp.ttx">>),
                         Cmd("rm", ref, <<DirOf(ref) \o "/" \o ref.b \o ".temp.ttx">>)>>
                  ELSE IF BuildOption("optimizeWithFilter") # ""
                  THEN <<Cmd(BuildOption("optimizeWithFilter"), ref,
                             <<BuildRawTtf_path(ref.a, ref.b)>>),
                         Cmd("rm", ref, <<BuildRawTtf_path(ref.a, ref.b)>>)>>
                  ELSE <<Cmd("mv", ref, <<BuildRawTtf_path(ref.a, ref.b)>>)>>)

\* BuildTTF (lines 348-372); target.needed only records dependencies.
BuildTTF_body(ref, k) ==
    CASE k = 1 -> Stage({Node0("OptimizeWithFilter"), Node0("OptimizeWithTtx"),
                         De(DirOf(ref))}, <<>>)
      [] k = 2 ->
            Stage({Ref("BuildRawTtf", ref.a, ref.b)},
                  IF BuildOption("optimizeWithFilter") # ""
                  THEN <<Cmd(BuildOption("optimizeWithFilter"), ref,
                             <<BuildRawTtf_path(ref.a, ref.b)>>),
                         Cmd("rm", ref, <<BuildRawTtf_path(ref.a, ref.b)>>)>>
                  ELSE IF HasTtxValue /\ BuildOption("optimizeWithTtx") # ""
                  THEN <<CmdTo("ttx", ref, <<BuildRawTtf_path(ref.a, ref.b)>>,
                               DirOf(ref) \o "/" \o ref.b \o ".temp.ttx"),
                         Cmd("rm", ref, <<BuildRawTtf_path(ref.a, ref.b)>>),
                         Cmd("ttx", ref, <<DirOf(ref) \o "/" \o ref.b \o ".temp.ttx">>),
                         Cmd("rm", ref, <<DirOf(ref) \o "/" \o ref.b \o ".temp.ttx">>)>>
                  ELSE <<Cmd("mv", ref, <<BuildRawTtf_path(ref.a, ref.b)>>)>>)

\* BuildCM (lines 374-379)
BuildCM_body(ref, k) == Stage({Ref("BuildTTF", ref.a, ref.b)}, <<>>)

\* DistUnhintedTTF (lines 386-392)
DistUnhintedTTF_body(ref, k) ==
    Stage({Ref("BuildTTF", ref.a, ref.b), De(DirOf(ref))},
          <<Cmd("cp", ref, <<BuildTTF_path(ref.a, ref.b)>>)>>)

\* DistHintedTTF (lines 393-400)
DistHintedTTF_body(ref, k) ==
    CASE k = 1 -> Stage({Ref("FontInfoOf", ref.b, "")}, <<>>)
      [] k = 2 -> Stage({Ref("BuildTTF", ref.a, ref.b), De(DirOf(ref))},
                        <<Cmd("ttfautohint", ref, <<BuildTTF_path(ref.a, ref.b)>>)>>)

\* glyfTtc and buildGlyfTtc (lines 459-476): parts is
\* cp.glyfTtcComposition[f] as it is; parts.map throws when it is undefined.
GlyfParts(parts, ref) ==
    Stage({Ref("BuildTTF", parts[i].dir, parts[i].file) : i \in 1..Len(parts)},
          <<CmdTo("otb-ttc-bundle -u", ref,
                  [i \in 1..Len(parts) |-> BuildTTF_path(parts[i].dir, parts[i].file)],
                  DirOf(ref) \o "/" \o ref.b \o ".unhinted.ttc"),
            Cmd("ttfautohint", ref, <<DirOf(ref) \o "/" \o ref.b \o ".unhinted.ttc">>),
            Cmd("rm", ref, <<DirOf(ref) \o "/" \o ref.b \o ".unhinted.ttc">>)>>)
glyfTtc_body(ref, k) ==
    CASE k = 1 -> Stage({Node0("CollectPlans")}, <<>>)
      [] k = 2 -> Stage({De(DirOf(ref))}, <<>>)
      [] k = 3 -> IF ~Has(nodeCollectPlans.value.glyfTtcComposition, ref.b) THEN Throws
                  ELSE GlyfParts(Get(nodeCollectPlans.value.glyfTtcComposition, ref.b), ref)

\* The stage that needs the ExportTtcFile or glyfTtc nodes of parts and
\* then runs the commands given.
TtcParts(kind, parts, ref, then) ==
    Stage({Ref(kind, ref.a, parts[i]) : i \in 1..Len(parts)}, then)

\* ExportTtcFile and buildCompositeTtc (lines 450-458, 477-480)
ExportTtcParts(parts, ref) ==
    TtcParts("glyfTtc", parts, ref,
        <<Cmd("otb-ttc-bundle", ref,
              [i \in 1..Len(parts) |-> glyfTtc_path(ref.a, parts[i])])>>)
ExportTtcFile_body(ref, k) ==
    CASE k = 1 -> Stage({Node0("CollectPlans"), De(DirOf(ref))}, <<>>)
      [] k = 2 -> ExportTtcParts(
                    Dedupe(GetOrEmpty(nodeCollectPlans.value.ttcComposition, ref.b)), ref)

\* GroupContents (lines 417-447), through GroupFonts, GroupTTFs and
\* GroupFontsOf: the plan's targets, then the hinted font of each.  The
\* unhinted, woff2 and css nodes it needs beside them are left out.
GroupContents_body(ref, k) ==
    CASE k = 1 -> Stage({Ref("BuildPlanOf", ref.a, "")}, <<>>)
      [] k = 2 -> Stage({Ref("DistHintedTTF", ref.a, t) :
                            t \in {Get(nodeBuildPlans.value.buildPlans, ref.a).targets[i] :
                                    i \in 1..Len(Get(nodeBuildPlans.value.buildPlans,
                                                     ref.a).targets)}}, <<>>)

\* GroupTtfArchiveFile, GroupTtfUnhintedArchiveFile, GroupWebArchiveFile and
\* CreateGroupArchiveFile (lines 551-579)
GroupArchive_body(ref, k) ==
    CASE k = 1 -> Stage({Node0("ExportPlans"), De(DirOf(ref))}, <<>>)
      [] k = 2 -> Stage({Ref("GroupContents", ExportPlanOf(ref.a), "")},
                        <<Cmd("rm", ref, <<PathOf(ref)>>),
                          Cmd("7z", ref,
                              <<DIST \o "/" \o ExportPlanOf(ref.a) \o
                                (CASE ref.kind = "GroupTtfArchiveFile" -> "/ttf"
                                   [] ref.kind = "GroupTtfUnhintedArchiveFile" ->
                                        "/ttf-unhinted"
                                   [] OTHER -> "")>>)>>)

\* CollectionArchiveFile (lines 497-523); sourceGroups.map throws when the
\* collection has no groupDecomposition entry.
CollectionArchiveFile_body(ref, k) ==
    CASE k = 1 -> Stage({Node0("CollectPlans"), De(DirOf(ref))}, <<>>)
      [] k = 2 -> IF ~Has(nodeCollectPlans.value.groupDecomposition, ref.a) THEN Throws
                  ELSE Stage({Ref("GroupContents", g, "") :
                                g \in {Get(nodeCollectPlans.value.groupDecomposition, ref.a)[i] :
                                        i \in 1..Len(Get(nodeCollectPlans.value.groupDecomposition,
                                                         ref.a))}}, <<>>)
      [] k = 3 -> TtcParts("ExportTtcFile",
                    Dedupe(GetOrEmpty(nodeCollectPlans.value.ttcContents, ref.a)), ref,
                    <<Cmd("rm", ref, <<PathOf(ref)>>)>>
                    \o [i \in 1..Len(Get(nodeCollectPlans.value.groupDecomposition, ref.a)) |->
                            Cmd("7z", ref,
                                <<DIST \o "/" \o
                                  Get(nodeCollectPlans.value.groupDecomposition, ref.a)[i]>>)]
                    \o <<Cmd("7z", ref, <<BUILD \o "/ttc-collect/" \o ref.a>>)>>)

\* TtcOnlyCollectionArchiveFile (lines 524-540)
TtcOnlyCollectionArchiveFile_body(ref, k) ==
    CASE k = 1 -> Stage({Node0("CollectPlans"), De(DirOf(ref))}, <<>>)
      [] k = 2 -> TtcParts("ExportTtcFile",
                    Dedupe(GetOrEmpty(nodeCollectPlans.value.ttcContents, ref.a)), ref,
                    <<Cmd("rm", ref, <<PathOf(ref)>>),
                      Cmd("7z", ref, <<BUILD \o "/ttc-collect/" \o ref.a \o "/ttc">>)>>)

GroupArchiveRules ==
    {"GroupTtfArchiveFile", "GroupTtfUnhintedArchiveFile", "GroupWebArchiveFile"}
BuildRules == FileRules \cup {"GroupContents"}

\* The number of needs in the body of a rule.
StagesOf(kind) ==
    CASE kind \in {"BuildCM", "DistUnhintedTTF"} -> 1
      [] kind \in {"glyfTtc", "CollectionArchiveFile"} -> 3
      [] OTHER -> 2

\* Stage k of the body of node ref.
BodyOf(ref, k) ==
    CASE ref.kind = "BuildRawTtf" -> BuildRawTtf_body(ref, k)
      [] ref.kind = "BuildTTF" -> BuildTTF_body(ref, k)
      [] ref.kind = "BuildCM" -> BuildCM_body(ref, k)
      [] ref.kind = "DistUnhintedTTF" -> DistUnhintedTTF_body(ref, k)
      [] ref.kind = "DistHintedTTF" -> DistHintedTTF_body(ref, k)
      [] ref.kind = "glyfTtc" -> glyfTtc_body(ref, k)
      [] ref.kind = "ExportTtcFile" -> ExportTtcFile_body(ref, k)
      [] ref.kind = "GroupContents" -> GroupContents_body(ref, k)
      [] ref.kind \in GroupArchiveRules -> GroupArchive_body(ref, k)
      [] ref.kind = "CollectionArchiveFile" -> CollectionArchiveFile_body(ref, k)
      [] ref.kind = "TtcOnlyCollectionArchiveFile" ->
            TtcOnlyCollectionArchiveFile_body(ref, k)

\* The state of the node a body needs: "unevaluated", "evaluating",
\* "settled" or "failed".  BuildPlanOf (lines 142-147) fails with BuildPlans
\* and when the plan is not in its table; ExportPlans (lines 105-112)
\* iterates rp.collectPlans[k].from and throws when an entry has none;
\* OptimizeWithTtx (lines 89-93) needs HasTtx and RawPlans,
\* OptimizeWithFilter (lines 94-96) RawPlans; Version reads package.json.
StateOf(ref) ==
    CASE ref.kind = "FontInfoOf" ->
            IF ref.a \in DOMAIN nodeFontInfoOf THEN nodeFontInfoOf[ref.a].state
            ELSE "unevaluated"
      [] ref.kind = "BuildPlanOf" ->
            IF nodeBuildPlans.state = "settled"
               /\ ~Has(nodeBuildPlans.value.buildPlans, ref.a)
            THEN "failed" ELSE nodeBuildPlans.state
      [] ref.kind = "CollectPlans" -> nodeCollectPlans.state
      [] ref.kind = "Version" -> "settled"
      [] ref.kind = "ExportPlans" ->
            IF rawPlansState # "settled" THEN "unevaluated"
            ELSE IF \E i \in 1..Len(rp.collectPlans) : ~rp.collectPlans[i].v.hasFrom
            THEN "failed" ELSE "settled"
      [] ref.kind = "OptimizeWithFilter" -> rawPlansState
      [] ref.kind = "OptimizeWithTtx" ->
            IF Node0("HasTtx") \in DOMAIN taskNodes THEN rawPlansState ELSE "unevaluated"
      [] ref.kind \in {"Scripts", "Parameters", "de", "HasTtx"} ->
            IF ref \in DOMAIN taskNodes THEN taskNodes[ref].state ELSE "unevaluated"
      [] OTHER ->
            IF ref \in DOMAIN buildNodes THEN buildNodes[ref].state ELSE "unevaluated"

\* The file and group nodes a need starts: those of refs not started yet
\* and, as a body runs to its first need when it starts, those the first
\* stages of these need.
RECURSIVE Started(_, _)
Started(refs, started) ==
    IF {n \in refs : n.kind \in BuildRules} \subseteq started THEN started
    ELSE Started(UNION {BodyOf(n, 1).needs : n \in {m \in refs : m.kind \in BuildRules}
                                                        \ started},
                 started \cup {n \in refs : n.kind \in BuildRules})

Node(stage, state) == [stage |-> stage, state |-> state]

\* buildNodes with node ref set to node and the nodes in needs started
StartNeeds(ref, node, needs) ==
    [n \in Started(needs, DOMAIN buildNodes) |->
        IF n = ref THEN node
        ELSE IF n \in DOMAIN buildNodes THEN buildNodes[n]
        ELSE Node(1, "evaluating")]

\* What every node a body currently awaits is: the needs of the current
\* stage of each node that is evaluating.
Wanted ==
    UNION {BodyOf(n, buildNodes[n].stage).needs :
            n \in {m \in DOMAIN buildNodes : buildNodes[m].state = "evaluating"}}

\* The body of node ref resumes after the need of stage k: the need
\* rejects if one of the nodes failed; otherwise the commands of the stage
\* are started in order and the body goes on to its next need, or throws
\* before it, or returns.
Resume(ref, k, body) ==
    IF \E n \in body.needs : StateOf(n) = "failed"
    THEN /\ buildNodes' = [buildNodes EXCEPT ![ref] = Node(k, "failed")]
         /\ UNCHANGED commands
    ELSE /\ commands' = commands \o body.then
         /\ IF k = StagesOf(ref.kind)
            THEN buildNodes' = [buildNodes EXCEPT ![ref] = Node(k, "settled")]
            ELSE IF BodyOf(ref, k + 1).throws
            THEN buildNodes' = [buildNodes EXCEPT ![ref] = Node(k + 1, "failed")]
            ELSE buildNodes' = StartNeeds(ref, Node(k + 1, "evaluating"),
                                          BodyOf(ref, k + 1).needs)

\* A step of the body of a node of the rule kind.  A command that exits
\* with an error is not modelled: every started command succeeds.
StepNode(kind) ==
    \E ref \in DOMAIN buildNodes :
        /\ ref.kind = kind
        /\ buildNodes[ref].state = "evaluating"
        /\ \A n \in BodyOf(ref, buildNodes[ref].stage).needs :
                StateOf(n) \in {"settled", "failed"}
        /\ Resume(ref, buildNodes[ref].stage, BodyOf(ref, buildNodes[ref].stage))
        /\ UNCHANGED <<plansFiles, rawPlansState, rp, privateExists, g_widthFixupMemory,
                       warnings, nodeBuildPlans, nodeStandardSuffixes, nodeCollectPlans,
                       nodeFontInfoOf, fixCalls, goals, taskNodes>>

\* Scripts (line 874) and Parameters (line 893): tasks that compile and
\* read the generator's sources; either may fail.
EvalTask(ref, ok) ==
    /\ ref \in Wanted
    /\ ref \notin DOMAIN taskNodes
    /\ taskNodes' = (ref :> [state |-> IF ok THEN "settled" ELSE "failed", value |-> ""])
                        @@ taskNodes
    /\ UNCHANGED <<plansFiles, rawPlansState, rp, privateExists, g_widthFixupMemory,
                   warnings, nodeBuildPlans, nodeStandardSuffixes, nodeCollectPlans,
                   nodeFontInfoOf, fixCalls, goals, buildNodes, commands>>

\* de`${dir}`: the directory is made
EvalDir ==
    \E ref \in Wanted :
        /\ ref.kind = "de"
        /\ ref \notin DOMAIN taskNodes
        /\ taskNodes' = (ref :> [state |-> "settled", value |-> ""]) @@ taskNodes
        /\ UNCHANGED <<plansFiles, rawPlansState, rp, privateExists, g_widthFixupMemory,
                       warnings, nodeBuildPlans, nodeStandardSuffixes, nodeCollectPlans,
                       nodeFontInfoOf, fixCalls, goals, buildNodes, commands>>

\* HasTtx (lines 58-62): whether the machine has ttx
EvalHasTtx(found) ==
    /\ Node0("OptimizeWithTtx") \in Wanted
    /\ Node0("HasTtx") \notin DOMAIN taskNodes
    /\ taskNodes' = (Node0("HasTtx") :> [state |-> "settled",
                                         value |-> IF found THEN "true" ELSE ""])
                        @@ taskNodes
    /\ UNCHANGED <<plansFiles, rawPlansState, rp, privateExists, g_widthFixupMemory,
                   warnings, nodeBuildPlans, nodeStandardSuffixes, nodeCollectPlans,
                   nodeFontInfoOf, fixCalls, goals, buildNodes, commands>>

\* FontInfoOf(fileName), when a body needs it
NeedFontInfoOf ==
    \E ref \in Wanted :
        /\ ref.kind = "FontInfoOf"
        /\ ref.a \notin DOMAIN nodeFontInfoOf
        /\ nodeBuildPlans.state # "unevaluated"
        /\ IF nodeBuildPlans.state = "failed"
           THEN /\ nodeFontInfoOf' =
                     MemSet(nodeFontInfoOf, ref.a, Failed(<<>>, nodeBuildPlans.err))
                /\ UNCHANGED <<g_widthFixupMemory, warnings>>
           ELSE FontInfoOfSettles(ref.a,
                    FontInfoOfBody(ref.a, nodeBuildPlans.value, PackageVersion,
                                   privateExists, Glob(g_widthFixupMemory, warnings)))
        /\ UNCHANGED <<plansFiles, rawPlansState, rp, privateExists, nodeBuildPlans,
                       nodeStandardSuffixes, nodeCollectPlans, fixCalls>>
        /\ UNCHANGED buildVars

(***************************************************************************)
(* A build: file nodes are requested and the graph runs until every one    *)
(* of them has settled or failed.                                          *)
(***************************************************************************)
\* Two global weights, so that a plan with its own single weight is sparse.
BuildAxes ==
    [weights |-> Some(<<wRegular, wBold>>), slopes |-> Some(<<E("upright", "normal")>>),
     widths |-> Some(<<wdNormal>>)]
BuildCollectConfig ==
    [has |-> TRUE, distinguishWeights |-> TRUE, distinguishWidths |-> FALSE,
     distinguishSlope |-> FALSE]
BuildConf(buildPlans, collectPlans, buildOptions) ==
    [Conf(buildPlans, BuildAxes, collectPlans, BuildCollectConfig)
        EXCEPT !.buildOptions = buildOptions]
BuildRun(base, requested) == [base |-> base, private |-> NoOverlay, goals |-> requested]

BuildOptionTables ==
    {Absent, Some(<<E("optimizeWithFilter", "filter -x")>>),
     Some(<<E("optimizeWithTtx", "true")>>),
     Some(<<E("optimizeWithTtx", "true"), E("optimizeWithFilter", "filter -x")>>)}

\* One good plan; a good plan beside one without a family name; a plan
\* with a shape weight out of range.
BuildPlanTables ==
    {<<E("sans", PlanOwn)>>, <<E("sans", PlanOwn), E("serif", PlanNoFamily)>>,
     <<E("sans", PlanBadWeight)>>}

\* What a run asks for: fonts of the plan sans, its archive, and the
\* archives of the collection all.
GoalSets ==
    {{Ref("DistHintedTTF", "sans", "sans-regular"), Ref("BuildCM", "sans", "sans-regular")},
     {Ref("DistUnhintedTTF", "sans", "sans-regular")},
     {Ref("GroupTtfArchiveFile", "sans", PackageVersion)},
     {Ref("CollectionArchiveFile", "all", PackageVersion)},
     {Ref("TtcOnlyCollectionArchiveFile", "all", PackageVersion)}}

BuildRuns ==
    {BuildRun(BuildConf(p, <<E("all", From(<<"sans">>))>>, Absent), g) :
        p \in BuildPlanTables, g \in GoalSets}
    \cup {BuildRun(BuildConf(<<E("sans", PlanOwn)>>, <<>>, o),
                   {Ref("DistUnhintedTTF", "sans", "sans-regular")}) :
            o \in BuildOptionTables}
    \* a collection that names the same plan twice, one without sources
    \* and one that is not there
    \cup {BuildRun(BuildConf(<<E("sans", PlanOwn)>>, <<E("dup", From(<<"sans", "sans">>))>>,
                             Absent), {Ref(k, "dup", PackageVersion)}) :
            k \in {"CollectionArchiveFile", "TtcOnlyCollectionArchiveFile"}}
    \cup {BuildRun(BuildConf(<<E("sans", PlanOwn)>>, <<E("none", c)>>, Absent),
                   {Ref(k, "none", PackageVersion)}) :
            c \in {NoFrom, From(<<>>)},
            k \in {"CollectionArchiveFile", "TtcOnlyCollectionArchiveFile",
                   "GroupWebArchiveFile"}}
    \* a collection with an empty list of sources beside one with sources
    \cup {BuildRun(BuildConf(<<E("sans", PlanOwn)>>,
                             <<E("none", From(<<>>)), E("all", From(<<"sans">>))>>, Absent),
                   {Ref("GroupWebArchiveFile", "sans", PackageVersion)})}
    \* a plan without a family name beside a collection without sources
    \cup {BuildRun(BuildConf(<<E("sans", PlanNoFamily)>>, <<E("none", NoFrom)>>, Absent),
                   {Ref("TtcOnlyCollectionArchiveFile", "none", PackageVersion),
                    Ref("DistHintedTTF", "sans", "sans-regular")})}
    \* the archives of a plan and of a plan named like its unhinted archive
    \cup {BuildRun(BuildConf(<<E("sans", PlanOwn), E("unhinted-sans", PlanOwn)>>,
                             <<E("all", From(<<"sans", "unhinted-sans">>))>>, Absent), g) :
            g \in {{Ref("GroupTtfArchiveFile", "unhinted-sans", PackageVersion),
                    Ref("GroupTtfUnhintedArchiveFile", "sans", PackageVersion)},
                   {Ref("GroupWebArchiveFile", "sans", PackageVersion),
                    Ref("GroupTtfArchiveFile", "sans", PackageVersion)}}}

InitBuild ==
    /\ \E run \in BuildRuns :
            /\ plansFiles = [base |-> run.base, private |-> run.private]
            /\ privateExists = run.private.exists
            /\ goals = run.goals
            /\ buildNodes = [n \in Started(run.goals, {}) |-> Node(1, "evaluating")]
    /\ rawPlansState = "unevaluated"
    /\ rp = NoConf
    /\ g_widthFixupMemory = <<>>
    /\ warnings = <<>>
    /\ nodeBuildPlans = Unevaluated(NoBuilt)
    /\ nodeStandardSuffixes = Unevaluated(<<>>)
    /\ nodeCollectPlans = Unevaluated(NoCollect)
    /\ nodeFontInfoOf = <<>>
    /\ fixCalls = <<>>
    /\ taskNodes = <<>>
    /\ commands = <<>>

NextBuild ==
    \/ EvalRawPlans
    \/ EvalBuildPlans
    \/ EvalStandardSuffixes
    \/ EvalCollectPlans
    \/ NeedFontInfoOf
    \/ \E ref \in {Node0("Scripts"), Node0("Parameters")}, ok \in BOOLEAN : EvalTask(ref, ok)
    \/ EvalDir
    \/ \E found \in BOOLEAN : EvalHasTtx(found)
    \/ \E kind \in BuildRules : StepNode(kind)

SpecBuild == InitBuild /\ [][NextBuild]_vars


(***************************************************************************)
(* Properties.                                                             *)
(***************************************************************************)
Entries(tbl) == {tbl[i] : i \in 1..Len(tbl)}
Elems(seq) == {seq[i] : i \in 1..Len(seq)}
BuiltPlans == nodeBuildPlans.value.buildPlans
BuiltIndex == nodeBuildPlans.value.fileNameToBpMap

\* The ranges of the numeric fields, on the value in tenths.
Tenths(v) == 10 * v.n + v.f
ShapeWeightInRange(v) == v.t = "number" /\ 1000 <= Tenths(v) /\ Tenths(v) <= 9000
CssWeightInRange(v) == v.t = "number" /\ 0 < Tenths(v) /\ Tenths(v) < 10000
ShapeWidthInRange(v) == v.t = "number" /\ 4330 <= Tenths(v) /\ Tenths(v) <= 6650
MenuWidthInRange(v) == v \in {Num(n) : n \in 1..9}
LegacyGrade(v) == v \in {Num(n) : n \in 3..9}

\* The fields of the given axis tables that are out of range, as the key
\* and the value of the message that reports them.
BadWeightFields(weights) ==
    {[key |-> "Shape weight of " \o e.k, v |-> e.v.shape] :
        e \in {x \in Entries(weights) : ~ShapeWeightInRange(x.v.shape)}}
    \cup {[key |-> "CSS weight of " \o e.k, v |-> e.v.css] :
        e \in {x \in Entries(weights) : ~CssWeightInRange(x.v.css)}}
    \cup {[key |-> "Menu weight of " \o e.k, v |-> e.v.menu] :
        e \in {x \in Entries(weights) : ~CssWeightInRange(x.v.menu)}}
BadWidthFields(widths) ==
    {[key |-> "Shape width of " \o e.k, v |-> e.v.shape] :
        e \in {x \in Entries(widths) : ~ShapeWidthInRange(x.v.shape)}}
    \cup {[key |-> "Menu width of " \o e.k, v |-> e.v.menu] :
        e \in {x \in Entries(widths) : ~MenuWidthInRange(x.v.menu)}}
\* Some (weight, slope, width) triple is enumerated.
HasTriples(weights, slopes, widths) ==
    Len(weights.tbl) > 0 /\ Len(slopes.tbl) > 0 /\ Len(widths.tbl) > 0
AxesInvalid(weights, slopes, widths) ==
    /\ HasTriples(weights, slopes, widths)
    /\ BadWeightFields(weights.tbl) \cup BadWidthFields(widths.tbl) # {}

\* C1 (as claimed): once BuildPlans has returned, no target name is produced
\* by two different (prefix, suffix) pairs: the target lists of the returned
\* plans hold no name twice, within a plan or across plans.
C1_TargetNamesInjective ==
    nodeBuildPlans.state = "settled" =>
        \A i, j \in 1..Len(BuiltPlans) :
            \A a \in 1..Len(BuiltPlans[i].v.targets), b \in 1..Len(BuiltPlans[j].v.targets) :
                (i # j \/ a # b) => BuiltPlans[i].v.targets[a] # BuiltPlans[j].v.targets[b]

\* C2 (as claimed): once BuildPlans has returned, for every plan prefix and
\* every weight, width and slope of the plan's resolved axes, the index maps
\* prefix + "-" + makeSuffix(weight, width, slope) back to {prefix, suffix}.
C2_IndexRoundTrip ==
    nodeBuildPlans.state = "settled" =>
        \A p \in Entries(BuiltPlans) :
            \A w \in KeySet(p.v.weights.tbl), wd \in KeySet(p.v.widths.tbl),
               sl \in KeySet(p.v.slopes.tbl) :
                LET suffix == makeSuffix(w, wd, sl, DEFAULT_SUBFAMILY)
                    targetName == p.k \o "-" \o suffix
                IN /\ Has(BuiltIndex, targetName)
                   /\ Get(BuiltIndex, targetName) = [prefix |-> p.k, suffix |-> suffix]

\* C3 (as claimed): every suffix of the standard mapping is the width name
\* unless "normal", then the weight name unless "regular", then the slope name
\* unless "upright"; it is "regular" exactly when all three are at their
\* normal value; and a returned plan whose axes are the single triple
\* regular/upright/normal has the one target prefix + "-regular".
C3_SuffixAndSingleTarget ==
    /\ nodeStandardSuffixes.state = "settled" =>
        \A e \in Entries(nodeStandardSuffixes.value) :
            LET allNormal == /\ e.v.weight = "regular"
                             /\ e.v.width = "normal"
                             /\ e.v.slope = "upright"
            IN /\ ~allNormal =>
                    e.k = (IF e.v.width = "normal" THEN "" ELSE e.v.width)
                          \o (IF e.v.weight = "regular" THEN "" ELSE e.v.weight)
                          \o (IF e.v.slope = "upright" THEN "" ELSE e.v.slope)
               /\ (e.k = "regular") <=> allNormal
    /\ nodeBuildPlans.state = "settled" =>
        \A p \in Entries(BuiltPlans) :
            (/\ Keys(p.v.weights.tbl) = <<"regular">>
             /\ Keys(p.v.slopes.tbl) = <<"upright">>
             /\ Keys(p.v.widths.tbl) = <<"normal">>)
            => p.v.targets = <<p.k \o "-regular">>

\* C4: getSuffixMapping of the global axes returns a mapping only when every
\* numeric field of the enumerated triples is a number in its range, and each
\* entry then carries the configured values unchanged; when a field is out of
\* range it throws the TypeError that names the key and the value of such a
\* field, and returns nothing.
C4_ValidatedOrError ==
    nodeStandardSuffixes.state # "unevaluated" =>
        IF AxesInvalid(rp.weights, rp.slopes, rp.widths)
        THEN /\ nodeStandardSuffixes.state = "failed"
             /\ nodeStandardSuffixes.value = <<>>
             /\ nodeStandardSuffixes.err.kind = "TypeError"
             /\ [key |-> nodeStandardSuffixes.err.key, v |-> nodeStandardSuffixes.err.v]
                    \in BadWeightFields(rp.weights.tbl) \cup BadWidthFields(rp.widths.tbl)
        ELSE /\ nodeStandardSuffixes.state = "settled"
             /\ \A e \in Entries(nodeStandardSuffixes.value) :
                    /\ ShapeWeightInRange(e.v.shapeWeight)
                    /\ CssWeightInRange(e.v.cssWeight)
                    /\ CssWeightInRange(e.v.menuWeight)
                    /\ ShapeWidthInRange(e.v.shapeWidth)
                    /\ MenuWidthInRange(e.v.menuWidth)
                    /\ e.v.shapeWeight = Get(rp.weights.tbl, e.v.weight).shape
                    /\ e.v.cssWeight = Get(rp.weights.tbl, e.v.weight).css
                    /\ e.v.menuWeight = Get(rp.weights.tbl, e.v.weight).menu
                    /\ e.v.shapeWidth = Get(rp.widths.tbl, e.v.width).shape
                    /\ e.v.menuWidth = Get(rp.widths.tbl, e.v.width).menu

\* C4 witness: shape weight 950 of weight regular was rejected by name.
C4_Witness ==
    /\ nodeStandardSuffixes.state = "failed"
    /\ nodeStandardSuffixes.err.key = "Shape weight of regular"
    /\ nodeStandardSuffixes.err.v = Num(950)

\* C5 (as claimed): when the shape of every width is in range or a legacy
\* grade 3..9, and every other field is in range, getSuffixMapping returns
\* the mapping, with shapeWidth = round(500 * sqrt(576/500)^(x-5)) for a
\* grade x, and a warning is printed for the grade.
C5_LegacyGradeAccepted ==
    (/\ nodeStandardSuffixes.state # "unevaluated"
     /\ HasTriples(rp.weights, rp.slopes, rp.widths)
     /\ BadWeightFields(rp.weights.tbl) = {}
     /\ \A e \in Entries(rp.widths.tbl) :
            /\ MenuWidthInRange(e.v.menu)
            /\ ShapeWidthInRange(e.v.shape) \/ LegacyGrade(e.v.shape)
     /\ \E e \in Entries(rp.widths.tbl) : LegacyGrade(e.v.shape))
    => /\ nodeStandardSuffixes.state = "settled"
       /\ \A e \in Entries(nodeStandardSuffixes.value) :
            LET x == Get(rp.widths.tbl, e.v.width).shape
            IN LegacyGrade(x) =>
                /\ e.v.shapeWidth = Num(RoundedWidth(x.n - 5))
                /\ \E i \in 1..Len(warnings) :
                        warnings[i].kind = "legacy-width-grade" /\ warnings[i].v = x

\* round(num / den) for positive whole numbers, halves rounded up
RoundOfQuotient(num, den) == (2 * num + den) \div (2 * den)

\* C6: VlShapeWidth.fix returns the same value for the same argument, is
\* strictly increasing on the integer grades 3..9, returns exactly 500 for 5
\* and round(500 * (576/500)^2) = 664 for 9 (so fix(3) < fix(5) < fix(9)), and
\* returns a value outside 3..9 unchanged.
C6_FixDeterministicIncreasing ==
    \A i, j \in 1..Len(fixCalls) :
        /\ fixCalls[i].x = fixCalls[j].x => fixCalls[i].v = fixCalls[j].v
        /\ LegacyGrade(fixCalls[i].x) =>
                /\ fixCalls[i].v.t = "number" /\ fixCalls[i].v.f = 0
                /\ (LegacyGrade(fixCalls[j].x) /\ fixCalls[i].x.n < fixCalls[j].x.n)
                        => fixCalls[i].v.n < fixCalls[j].v.n
        /\ fixCalls[i].x = Num(5) => fixCalls[i].v = Num(500)
        /\ fixCalls[i].x = Num(9) =>
                /\ fixCalls[i].v = Num(664)
                /\ fixCalls[i].v.n = RoundOfQuotient(500 * 576 * 576, 500 * 500)
        /\ ~LegacyGrade(fixCalls[i].x) => fixCalls[i].v = fixCalls[i].x

\* C6 witness: the fixup has been called with the grades 3, 5 and 9.
C6_Witness ==
    {Num(3), Num(5), Num(9)} \subseteq {fixCalls[i].x : i \in 1..Len(fixCalls)}

\* C7: over the calls of one process, the warning for a grade is printed at
\* most once, by the first call with that grade; every later call with the
\* grade returns what the first call returned; and the memo holds entries
\* for grades in 3..9 only.
C7_WarnedOncePerGrade ==
    /\ \A a, b \in 1..Len(warnings) :
            (/\ warnings[a].kind = "legacy-width-grade"
             /\ warnings[b].kind = "legacy-width-grade"
             /\ warnings[a].v = warnings[b].v) => a = b
    /\ \A i, j \in 1..Len(fixCalls) :
            (i < j /\ fixCalls[i].x = fixCalls[j].x) =>
                /\ ~fixCalls[j].warned
                /\ fixCalls[j].v = fixCalls[i].v
    /\ DOMAIN g_widthFixupMemory \subseteq {Num(n) : n \in 3..9}
    /\ \A x \in DOMAIN g_widthFixupMemory :
            \E i \in 1..Len(fixCalls) :
                fixCalls[i].x = x /\ fixCalls[i].v = g_widthFixupMemory[x]

\* C7 witness: grade 5 has been fixed twice, the first call warned.
C7_Witness ==
    \E i, j \in 1..Len(fixCalls) :
        /\ i < j
        /\ fixCalls[i].x = Num(5) /\ fixCalls[j].x = Num(5)
        /\ fixCalls[i].warned

NoFamilyPlans == {i \in 1..Len(rp.buildPlans) : rp.buildPlans[i].v.family = ""}
FirstNoFamilyPlan == CHOOSE i \in NoFamilyPlans : \A j \in NoFamilyPlans : i <= j
\* The axes plan i is expanded over: its own, else the global ones.
ResolvedInvalid(i) ==
    AxesInvalid(OrElse(rp.buildPlans[i].v.weights, rp.weights),
                OrElse(rp.buildPlans[i].v.slopes,
                       OrElse(rp.buildPlans[i].v.slants, rp.slopes)),
                OrElse(rp.buildPlans[i].v.widths, rp.widths))

\* C8 (as claimed): if any plan has no family name, BuildPlans fails with the
\* error that names that plan's prefix, and returns no table and no index.
C8_Original ==
    nodeBuildPlans.state # "unevaluated" =>
        \A i \in NoFamilyPlans :
            /\ nodeBuildPlans.state = "failed"
            /\ nodeBuildPlans.value = NoBuilt
            /\ nodeBuildPlans.err = NoFamilyName(rp.buildPlans[i].k)

\* C8 (amended): if any plan has no family name, BuildPlans fails and returns
\* no table and no index, so no targets for that plan; the error is the
\* family-name error naming the prefix of the first such plan, unless a plan
\* before it has an axis field out of range, whose TypeError is raised first.
C8_FailsOnMissingFamily ==
    (nodeBuildPlans.state # "unevaluated" /\ NoFamilyPlans # {}) =>
        /\ nodeBuildPlans.state = "failed"
        /\ nodeBuildPlans.value = NoBuilt
        /\ IF \E j \in 1..(FirstNoFamilyPlan - 1) : ResolvedInvalid(j)
           THEN nodeBuildPlans.err.kind = "TypeError"
           ELSE nodeBuildPlans.err = NoFamilyName(rp.buildPlans[FirstNoFamilyPlan].k)

\* C8 witness: the second plan has no family name, the first one expanded,
\* and BuildPlans failed naming the second.
C8_Witness ==
    /\ Len(rp.buildPlans) = 2
    /\ NoFamilyPlans = {2}
    /\ nodeBuildPlans.state = "failed"
    /\ nodeBuildPlans.err = NoFamilyName(rp.buildPlans[2].k)

IsNumber(v) == v.t = "number"

\* A record of FontInfoOf with every field of the name, the family, the
\* version and the resolved axes present.
CompleteFontInfo(fileName, info) ==
    /\ info.name = fileName
    /\ info.menu.family # "" /\ info.menu.version = PackageVersion
    /\ IsNumber(info.shape.weight) /\ IsNumber(info.shape.width)
    /\ IsNumber(info.menu.weight) /\ IsNumber(info.menu.width)
    /\ IsNumber(info.css.weight)
    /\ info.shape.slope # "" /\ info.menu.slope # "" /\ info.css.style # ""
    /\ info.css.stretch # ""

\* C9: when BuildPlans has returned, FontInfoOf(name) fails with the "Build
\* plan for 'name' not found" error whenever name is not in the index, the
\* hint appended exactly when the private plan file does not exist; it
\* returns a record only when name is in the index and its plan is in the
\* table, and the record is then complete; a failure returns nothing.
C9_FontInfoOrNotFound ==
    nodeBuildPlans.state = "settled" =>
        \A fileName \in DOMAIN nodeFontInfoOf :
            /\ ~Has(BuiltIndex, fileName) =>
                    /\ nodeFontInfoOf[fileName].state = "failed"
                    /\ nodeFontInfoOf[fileName].err.kind = "NotFound"
                    /\ nodeFontInfoOf[fileName].err.key = fileName
                    /\ nodeFontInfoOf[fileName].err.hint = ~privateExists
            /\ nodeFontInfoOf[fileName].state = "settled" =>
                    /\ Has(BuiltIndex, fileName)
                    /\ Has(BuiltPlans, Get(BuiltIndex, fileName).prefix)
                    /\ CompleteFontInfo(fileName, nodeFontInfoOf[fileName].value)
            /\ nodeFontInfoOf[fileName].state = "failed" =>
                    nodeFontInfoOf[fileName].value = <<>>

\* C9 witness: a name that is not in the index of a returned BuildPlans was
\* asked for while the private plan file does not exist.
C9_Witness ==
    /\ nodeBuildPlans.state = "settled"
    /\ Len(BuiltIndex) > 0
    /\ ~privateExists
    /\ \E fileName \in DOMAIN nodeFontInfoOf :
            /\ ~Has(BuiltIndex, fileName)
            /\ nodeFontInfoOf[fileName].err.hint

\* C10: in a returned collection plan, every name in a value list of
\* ttcComposition is a key of glyfTtcComposition, and every name in a value
\* list of ttcContents is a key of ttcComposition.
C10_CompositionClosed ==
    nodeCollectPlans.state = "settled" =>
        /\ \A e \in Entries(nodeCollectPlans.value.ttcComposition) :
                \A name \in Elems(e.v) :
                    Has(nodeCollectPlans.value.glyfTtcComposition, name)
        /\ \A c \in Entries(nodeCollectPlans.value.ttcContents) :
                \A name \in Elems(c.v) :
                    Has(nodeCollectPlans.value.ttcComposition, name)

\* C10 witness: a collection plan was returned with two containers in it.
C10_Witness ==
    /\ nodeCollectPlans.state = "settled"
    /\ Len(nodeCollectPlans.value.ttcContents) > 0
    /\ Len(nodeCollectPlans.value.ttcComposition) > 1
    /\ Len(nodeCollectPlans.value.glyfTtcComposition) > 1

\* The source plans the collect table names, each with its collection.
CollectSources ==
    UNION {{[collect |-> e.k, prefix |-> e.v.from[j]] : j \in 1..Len(e.v.from)} :
                e \in Entries(rp.collectPlans)}
CollectedParts ==
    UNION {Elems(e.v) : e \in Entries(nodeCollectPlans.value.glyfTtcComposition)}

\* C11: in a returned collection plan every (dir, file) pair of a
\* glyfTtcComposition list names a target that the build plan dir produces,
\* under a suffix of the global mapping; a suffix of the global mapping that
\* a source plan does not produce gets no pair, and CollectPlans does not
\* fail for it: it fails only when StandardSuffixes or BuildPlans failed,
\* when a source plan is not in the plan table, or when there is no
\* collectConfig to read.
C11_SparseAxisTolerated ==
    /\ nodeCollectPlans.state = "settled" =>
        \A part \in CollectedParts :
            /\ nodeBuildPlans.state = "settled"
            /\ Has(BuiltPlans, part.dir)
            /\ part.file \in Elems(Get(BuiltPlans, part.dir).targets)
            /\ \E suffix \in KeySet(nodeStandardSuffixes.value) :
                    part.file = part.dir \o "-" \o suffix
    /\ nodeCollectPlans.state = "failed" =>
        \/ nodeStandardSuffixes.state = "failed"
        \/ nodeBuildPlans.state = "failed"
        \/ ~rp.collectConfig.has
        \/ \E src \in CollectSources : ~Has(BuiltPlans, src.prefix)

\* C11 witness: a collection plan was returned with pairs in it, and one of
\* its source plans lacks the italic slope of the global mapping.
C11_Witness ==
    /\ nodeCollectPlans.state = "settled"
    /\ CollectedParts # {}
    /\ \E src \in CollectSources :
            /\ Has(BuiltPlans, src.prefix)
            /\ ~Has(Get(BuiltPlans, src.prefix).slopes.tbl, "italic")
            /\ \E e \in Entries(nodeStandardSuffixes.value) :
                    /\ e.v.slope = "italic"
                    /\ makeFileName(src.prefix, e.k)
                            \notin Elems(Get(BuiltPlans, src.prefix).targets)

\* The table a merge of the overlay's table over the base's must give: every
\* key of either, with the overlay's value when the overlay has the key.
MergedOver(merged, base, over) ==
    /\ KeySet(merged) = KeySet(base) \cup KeySet(over)
    /\ Len(merged) = Cardinality(KeySet(merged))
    /\ \A k \in KeySet(merged) :
            Get(merged, k) = IF Has(over, k) THEN Get(over, k) ELSE Get(base, k)

\* C12: the configuration RawPlans returns has the base's buildPlans and
\* buildOptions with the overlay's entries merged over them key by key, the
\* overlay's value winning, and every other top-level table from the base
\* alone; with no overlay file it is the base, buildOptions defaulted to an
\* empty table.
C12_OverlayMerge ==
    rawPlansState = "settled" =>
        /\ rp.weights = plansFiles.base.weights
        /\ rp.slopes = plansFiles.base.slopes
        /\ rp.widths = plansFiles.base.widths
        /\ rp.collectPlans = plansFiles.base.collectPlans
        /\ rp.collectConfig = plansFiles.base.collectConfig
        /\ rp.buildOptions.has
        /\ IF plansFiles.private.exists
           THEN /\ MergedOver(rp.buildPlans, plansFiles.base.buildPlans,
                              plansFiles.private.buildPlans.tbl)
                /\ MergedOver(rp.buildOptions.tbl, plansFiles.base.buildOptions.tbl,
                              plansFiles.private.buildOptions.tbl)
           ELSE /\ rp.buildPlans = plansFiles.base.buildPlans
                /\ rp.buildOptions.tbl = plansFiles.base.buildOptions.tbl

\* C12 witness: the overlay replaced the base's plan sans and its filter
\* option, added an option, and carried a weights table that was ignored.
C12_Witness ==
    /\ rawPlansState = "settled"
    /\ plansFiles.private.exists
    /\ plansFiles.private.weights.has
    /\ Has(plansFiles.private.buildPlans.tbl, "sans")
    /\ Get(rp.buildPlans, "sans") # Get(plansFiles.base.buildPlans, "sans")
    /\ Has(plansFiles.base.buildOptions.tbl, "optimizeWithFilter")
    /\ Get(rp.buildOptions.tbl, "optimizeWithFilter") = "filter -x"
    /\ rp.weights # plansFiles.private.weights

\* C14: no two distinct file nodes (a different rule, or the same rule with
\* different arguments) are given the same output path by their rules.
C14_DistinctPaths ==
    \A m, n \in DOMAIN buildNodes :
        (m # n /\ m.kind \in FileRules /\ n.kind \in FileRules) => PathOf(m) # PathOf(n)

EnumeratedName(prefix, bp, n) ==
    makeFileName(prefix,
        makeSuffix(bp.weights.tbl[((n - 1) \div (Len(bp.slopes.tbl) * Len(bp.widths.tbl))) + 1].k,
                   bp.widths.tbl[((n - 1) % Len(bp.widths.tbl)) + 1].k,
                   bp.slopes.tbl[(((n - 1) \div Len(bp.widths.tbl)) % Len(bp.slopes.tbl)) + 1].k,
                   DEFAULT_SUBFAMILY))
EnumerationLen(bp) == Len(bp.weights.tbl) * Len(bp.slopes.tbl) * Len(bp.widths.tbl)
\* The first place of name in the enumeration, 0 when it is not in it.
EnumerationRank(prefix, bp, name) ==
    IF \E n \in 1..EnumerationLen(bp) : EnumeratedName(prefix, bp, n) = name
    THEN CHOOSE n \in 1..EnumerationLen(bp) :
            /\ EnumeratedName(prefix, bp, n) = name
            /\ \A m \in 1..(n - 1) : EnumeratedName(prefix, bp, m) # name
    ELSE 0
\* The weight a place of the enumeration belongs to, by its table position.
WeightIndexAt(bp, n) == ((n - 1) \div (Len(bp.slopes.tbl) * Len(bp.widths.tbl))) + 1

\* The targets of the plan, in order, are names of the enumeration at
\* strictly increasing places.
InEnumerationOrder(prefix, bp) ==
    /\ \A a \in 1..Len(bp.targets) : EnumerationRank(prefix, bp, bp.targets[a]) > 0
    /\ \A a \in 1..(Len(bp.targets) - 1) :
        /\ EnumerationRank(prefix, bp, bp.targets[a])
                < EnumerationRank(prefix, bp, bp.targets[a + 1])
        /\ WeightIndexAt(bp, EnumerationRank(prefix, bp, bp.targets[a]))
                <= WeightIndexAt(bp, EnumerationRank(prefix, bp, bp.targets[a + 1]))

SlantsWarnings(prefix) ==
    {i \in 1..Len(warnings) :
        warnings[i].kind = "legacy-slants" /\ warnings[i].key = prefix}
\* The plan of the configuration has no slopes but has slants.
UsesLegacySlants(raw) == ~raw.slopes.has /\ raw.slants.has
\* The axes of the built plan bp are those the raw plan resolves to.
ShimmedFrom(bp, raw) ==
    /\ bp.weights = (IF raw.weights.has THEN raw.weights ELSE rp.weights)
    /\ bp.widths = (IF raw.widths.has THEN raw.widths ELSE rp.widths)
    /\ bp.slopes = (IF raw.slopes.has THEN raw.slopes
                    ELSE IF raw.slants.has THEN raw.slants ELSE rp.slopes)
    /\ bp.slants = raw.slants
    /\ bp.family = raw.family

\* C17: every plan BuildPlans returns has its own weights, else the global
\* ones, its widths likewise, and its own slopes, else its slants, else the
\* global slopes; the legacy-alias warning is printed for a plan exactly
\* when it has no slopes but has slants; and the configuration RawPlans
\* returned is the same afterwards.
C17_ShimResolvesAxes ==
    /\ rawPlansState = "settled" =>
            rp = RawPlansBody(plansFiles.base, plansFiles.private)
    /\ \A i \in 1..Len(warnings) :
            warnings[i].kind = "legacy-slants" =>
                /\ Has(rp.buildPlans, warnings[i].key)
                /\ UsesLegacySlants(Get(rp.buildPlans, warnings[i].key))
    /\ nodeBuildPlans.state = "settled" =>
            /\ Len(BuiltPlans) = Len(rp.buildPlans)
            /\ \A i \in 1..Len(rp.buildPlans) :
                /\ BuiltPlans[i].k = rp.buildPlans[i].k
                /\ ShimmedFrom(BuiltPlans[i].v, rp.buildPlans[i].v)
                /\ Cardinality(SlantsWarnings(rp.buildPlans[i].k))
                        = IF UsesLegacySlants(rp.buildPlans[i].v) THEN 1 ELSE 0
C17_Witness ==
    /\ nodeBuildPlans.state = "settled"
    /\ \E i \in 1..Len(rp.buildPlans) : UsesLegacySlants(rp.buildPlans[i].v)
    /\ \E i \in 1..Len(rp.buildPlans) :
            rp.buildPlans[i].v.weights.has /\ rp.buildPlans[i].v.slopes.has
    /\ DOMAIN nodeFontInfoOf # {}

\* The commands that merge fonts or containers into a container.
MergeCommands ==
    {i \in 1..Len(commands) : commands[i].tool \in {"otb-ttc-bundle", "otb-ttc-bundle -u"}}

\* C18: the list of parts a container is built from, be it the intermediate
\* containers of a top-level container or the fonts of an intermediate
\* container, holds no part twice.
C18_NoPartTwice ==
    \A i \in MergeCommands :
        \A a, b \in 1..Len(commands[i].inputs) :
            a # b => commands[i].inputs[a] # commands[i].inputs[b]

\* list is a subsequence of enum: its elements are elements of enum at
\* increasing places.
RECURSIVE IsSubsequenceFrom(_, _, _, _)
IsSubsequenceFrom(list, i, enum, n) ==
    IF i > Len(list) THEN TRUE
    ELSE IF n > Len(enum) THEN FALSE
    ELSE IF list[i] = enum[n] THEN IsSubsequenceFrom(list, i + 1, enum, n + 1)
    ELSE IsSubsequenceFrom(list, i, enum, n + 1)
IsSubsequence(list, enum) == IsSubsequenceFrom(list, 1, enum, 1)

\* The iteration of getCollectPlans over one collection: the sources of
\* collect.from as the outer loop, the entries of the suffix mapping as the
\* inner loop; place n is source SourceAt and mapping entry SuffixAt.
SourceAt(from, mapping, n) == from[((n - 1) \div Len(mapping)) + 1]
SuffixAt(mapping, n) == mapping[((n - 1) % Len(mapping)) + 1]
\* What each place would push: the pair under its intermediate container's
\* name, the intermediate container under its container's name, and the
\* container's name.
PairPlaces(collectPrefix, from, mapping, config) ==
    [n \in 1..(Len(from) * Len(mapping)) |->
        <<fnStandardTtc(WithDistinguishWidths(config), collectPrefix,
                        SuffixAt(mapping, n).v.weight, SuffixAt(mapping, n).v.width,
                        SuffixAt(mapping, n).v.slope),
          [dir |-> SourceAt(from, mapping, n),
           file |-> makeFileName(SourceAt(from, mapping, n), SuffixAt(mapping, n).k)]>>]
GlyfPlaces(collectPrefix, from, mapping, config) ==
    [n \in 1..(Len(from) * Len(mapping)) |->
        <<fnStandardTtc(config, collectPrefix, SuffixAt(mapping, n).v.weight,
                        SuffixAt(mapping, n).v.width, SuffixAt(mapping, n).v.slope),
          fnStandardTtc(WithDistinguishWidths(config), collectPrefix,
                        SuffixAt(mapping, n).v.weight, SuffixAt(mapping, n).v.width,
                        SuffixAt(mapping, n).v.slope)>>]
TtcPlaces(collectPrefix, from, mapping, config) ==
    [n \in 1..(Len(from) * Len(mapping)) |->
        fnStandardTtc(config, collectPrefix, SuffixAt(mapping, n).v.weight,
                      SuffixAt(mapping, n).v.width, SuffixAt(mapping, n).v.slope)]

\* list, each element tagged with the key of the table it is stored under
Tagged(key, list) == [i \in 1..Len(list) |-> <<key, list[i]>>]

\* The lists of the collection collectPrefix in the result cp are in the
\* order of the places.
CollectionInOrder(cp, collectPrefix, from, mapping, config) ==
    /\ IsSubsequence(Get(cp.ttcContents, collectPrefix),
                     TtcPlaces(collectPrefix, from, mapping, config))
    /\ \A a, b \in 1..Len(Get(cp.ttcContents, collectPrefix)) :
            a # b => Get(cp.ttcContents, collectPrefix)[a]
                        # Get(cp.ttcContents, collectPrefix)[b]
    /\ \A a \in 1..Len(Get(cp.ttcContents, collectPrefix)) :
        /\ IsSubsequence(
                Tagged(Get(cp.ttcContents, collectPrefix)[a],
                       Get(cp.ttcComposition, Get(cp.ttcContents, collectPrefix)[a])),
                GlyfPlaces(collectPrefix, from, mapping, config))
        /\ \A g \in {Get(cp.ttcComposition, Get(cp.ttcContents, collectPrefix)[a])[i] :
                        i \in 1..Len(Get(cp.ttcComposition,
                                         Get(cp.ttcContents, collectPrefix)[a]))} :
                IsSubsequence(Tagged(g, Get(cp.glyfTtcComposition, g)),
                              PairPlaces(collectPrefix, from, mapping, config))

\* C19: in every list of glyfTtcComposition the pairs are in the order of
\* their source in collect.from and, within a source, of the global suffix
\* mapping; the lists of ttcComposition and of ttcContents are in the same
\* insertion order.
C19_CompositionInInsertionOrder ==
    nodeCollectPlans.state = "settled" =>
        \A i \in 1..Len(nodeCollectPlans.value.groupDecomposition) :
            CollectionInOrder(nodeCollectPlans.value,
                              nodeCollectPlans.value.groupDecomposition[i].k,
                              nodeCollectPlans.value.groupDecomposition[i].v,
                              nodeStandardSuffixes.value, rp.collectConfig)
C19_Witness ==
    /\ nodeCollectPlans.state = "settled"
    /\ \E i \in 1..Len(nodeCollectPlans.value.glyfTtcComposition) :
        \E a, b \in 1..Len(nodeCollectPlans.value.glyfTtcComposition[i].v) :
            /\ nodeCollectPlans.value.glyfTtcComposition[i].v[a].dir
                    # nodeCollectPlans.value.glyfTtcComposition[i].v[b].dir
            /\ Len(nodeCollectPlans.value.glyfTtcComposition[i].v) > 3
    /\ \E i \in 1..Len(nodeCollectPlans.value.ttcComposition) :
        \E a, b \in 1..Len(nodeCollectPlans.value.ttcComposition[i].v) :
            nodeCollectPlans.value.ttcComposition[i].v[a]
                # nodeCollectPlans.value.ttcComposition[i].v[b]
    /\ \E i \in 1..Len(nodeCollectPlans.value.ttcContents) :
            Len(nodeCollectPlans.value.ttcContents[i].v) > 1

\* The commands that generate, hint, merge or archive.
BuildTools == {"font-src/index", "ttfautohint", "otb-ttc-bundle", "otb-ttc-bundle -u", "7z"}
\* The command works on a target of a plan: every command does but those
\* of the container-only archive of a collection that has no container.
ForTarget(cmd) ==
    ~(/\ cmd.node.kind = "TtcOnlyCollectionArchiveFile"
      /\ GetOrEmpty(nodeCollectPlans.value.ttcContents, cmd.node.a) = <<>>)
\* What BuildRawTtf awaits before it starts the generator for node.
GeneratorNeeds(node) ==
    {Ref("FontInfoOf", node.b, ""), Node0("Scripts"), Node0("Parameters"), De(DirOf(node))}

\* C20: when BuildPlans fails, no generating, hinting, merging or archiving
\* command is ever started for a target of a plan; and the generator for a
\* font is started only when FontInfoOf of the font, Scripts, Parameters and
\* the output directory have settled.
C20_ConfigErrorHalts ==
    /\ [](nodeBuildPlans.state = "failed" =>
            \A i \in 1..Len(commands) :
                commands[i].tool \in BuildTools => ~ForTarget(commands[i]))
    /\ [][\A i \in (Len(commands) + 1)..Len(commands') :
            commands'[i].tool = "font-src/index" =>
                \A n \in GeneratorNeeds(commands'[i].node) : StateOf(n) = "settled"]_vars
C20_Witness ==
    /\ nodeBuildPlans.state = "failed"
    /\ \A g \in goals : buildNodes[g].state \in {"failed", "settled"}
    /\ \E n \in DOMAIN buildNodes : n.kind = "BuildRawTtf" /\ buildNodes[n].state = "failed"
    /\ \E n \in DOMAIN buildNodes : n.kind = "DistHintedTTF" /\ buildNodes[n].state = "failed"
    /\ \E n \in DOMAIN taskNodes : n.kind = "de"

\* The widths of the suffixes of the global mapping that give the source
\* plan dir the target file.
WidthsOfPair(pair, mapping) ==
    {mapping[k].v.width : k \in {j \in 1..Len(mapping) :
                                    makeFileName(pair.dir, mapping[j].k) = pair.file}}

\* C21: whatever the flags of the collect configuration, the pairs of one
\* glyfTtcComposition list all come from suffixes of one width.
C21_GlyfContainersWidthSpecific ==
    nodeCollectPlans.state = "settled" =>
        \A i \in 1..Len(nodeCollectPlans.value.glyfTtcComposition) :
            \A a, b \in 1..Len(nodeCollectPlans.value.glyfTtcComposition[i].v) :
                /\ Cardinality(WidthsOfPair(nodeCollectPlans.value.glyfTtcComposition[i].v[a],
                                            nodeStandardSuffixes.value)) = 1
                /\ WidthsOfPair(nodeCollectPlans.value.glyfTtcComposition[i].v[a],
                                nodeStandardSuffixes.value)
                    = WidthsOfPair(nodeCollectPlans.value.glyfTtcComposition[i].v[b],
                                   nodeStandardSuffixes.value)
C21_Witness ==
    /\ nodeCollectPlans.state = "settled"
    /\ rp.collectConfig.has /\ ~rp.collectConfig.distinguishWidths
    /\ \E i, j \in 1..Len(nodeCollectPlans.value.glyfTtcComposition) :
        /\ Len(nodeCollectPlans.value.glyfTtcComposition[i].v) > 1
        /\ WidthsOfPair(nodeCollectPlans.value.glyfTtcComposition[i].v[1],
                        nodeStandardSuffixes.value)
            # WidthsOfPair(nodeCollectPlans.value.glyfTtcComposition[j].v[1],
                           nodeStandardSuffixes.value)

\* The record FontInfoOf gives the target fileName when it describes the
\* built plan bp under prefix: the entry of the plan's own suffix mapping sm
\* whose suffix makes the name.
DescribesPlan(info, fileName, prefix, bp, sm) ==
    /\ sm.ok
    /\ \E k \in 1..Len(sm.mapping) :
        /\ makeFileName(prefix, sm.mapping[k].k) = fileName
        /\ info = FontInfoRecord(fileName, bp, sm.mapping[k].v, PackageVersion)

\* C22: for every plan gid and every target tn of gid, FontInfoOf(tn)
\* describes gid: the family is gid's and the shape, menu and css values
\* come from gid's resolved axes.
C22_FontInfoDescribesGroup ==
    nodeBuildPlans.state = "settled" =>
        \A i \in 1..Len(BuiltPlans) :
            \A t \in 1..Len(BuiltPlans[i].v.targets) :
                (/\ BuiltPlans[i].v.targets[t] \in DOMAIN nodeFontInfoOf
                 /\ nodeFontInfoOf[BuiltPlans[i].v.targets[t]].state = "settled") =>
                    DescribesPlan(nodeFontInfoOf[BuiltPlans[i].v.targets[t]].value,
                                  BuiltPlans[i].v.targets[t], BuiltPlans[i].k,
                                  BuiltPlans[i].v,
                                  getSuffixMapping(BuiltPlans[i].v.weights,
                                                   BuiltPlans[i].v.slopes,
                                                   BuiltPlans[i].v.widths,
                                                   Glob(g_widthFixupMemory, warnings)))

\* The targets of the built plan bp under prefix are exactly the names of
\* the suffixes of sm, the suffix mapping of the plan's resolved axes.
ExpandsAll(prefix, bp, sm) ==
    /\ sm.ok
    /\ {bp.targets[t] : t \in 1..Len(bp.targets)}
        = {makeFileName(prefix, sm.mapping[k].k) : k \in 1..Len(sm.mapping)}

\* C23: for every plan BuildPlans returns, the set of target names is the
\* set of prefix-suffix names over the suffixes of the plan's own resolved
\* axes; the weight and slope filter drops none of them.
C23_ExpansionComplete ==
    nodeBuildPlans.state = "settled" =>
        \A i \in 1..Len(BuiltPlans) :
            ExpandsAll(BuiltPlans[i].k, BuiltPlans[i].v,
                       getSuffixMapping(BuiltPlans[i].v.weights, BuiltPlans[i].v.slopes,
                                        BuiltPlans[i].v.widths,
                                        Glob(g_widthFixupMemory, warnings)))

\* A collect entry without sources: `from` is missing or is an empty list.
Sourceless(collect) == ~collect.hasFrom \/ Len(collect.from) = 0

\* The collect table without its entry i
WithoutEntry(tbl, i) == SubSeq(tbl, 1, i - 1) \o SubSeq(tbl, i + 1, Len(tbl))

\* CollectPlans has come out as getCollectPlans does on the table r came
\* from: it failed when r failed, and settled with the four tables of r.
CollectPlansIs(r) ==
    /\ nodeCollectPlans.state = "settled" <=> r.ok
    /\ r.ok => nodeCollectPlans.value =
                    [glyfTtcComposition |-> r.glyfTtcComposition,
                     ttcComposition |-> r.ttcComposition,
                     ttcContents |-> r.ttcContents,
                     groupDecomposition |-> r.groupDecomposition]

\* CollectPlans treats the sourceless entry i as if it were not in the
\* collect table, and its name is no key of the tables by collection.
CollectPlansIgnores(i) ==
    (nodeCollectPlans.state # "unevaluated" /\ nodeStandardSuffixes.state = "settled") =>
        /\ CollectPlansIs(getCollectPlans(WithoutEntry(rp.collectPlans, i), nodeBuildPlans,
                                          privateExists, nodeStandardSuffixes.value,
                                          rp.collectConfig))
        /\ ~Has(nodeCollectPlans.value.groupDecomposition, rp.collectPlans[i].k)
        /\ ~Has(nodeCollectPlans.value.ttcContents, rp.collectPlans[i].k)

\* C24: once the plans are read, a collect entry whose `from` is missing or
\* empty does not make ExportPlans fail, CollectPlans comes out as it does
\* without the entry, and the entry adds no key to glyfTtcComposition,
\* ttcComposition, ttcContents, groupDecomposition or the export plans.
C24_SourcelessEntryTolerated ==
    rawPlansState = "settled" =>
        \A i \in 1..Len(rp.collectPlans) :
            Sourceless(rp.collectPlans[i].v) =>
                /\ StateOf(Node0("ExportPlans")) = "settled"
                /\ ExportPlanOf(rp.collectPlans[i].k) = "undefined"
                /\ CollectPlansIgnores(i)

\* The files there are once the first n commands have run: rm removes its
\* input, mv moves its input to its output, any other tool writes its output.
RECURSIVE FilesAfter(_)
FilesAfter(n) ==
    IF n = 0 THEN {}
    ELSE CASE commands[n].tool = "rm" -> FilesAfter(n - 1) \ {commands[n].inputs[1]}
           [] commands[n].tool = "mv" ->
                (FilesAfter(n - 1) \ {commands[n].inputs[1]}) \cup {commands[n].output}
           [] OTHER -> FilesAfter(n - 1) \cup {commands[n].output}

\* The tools the body of node ref has started, in order
RECURSIVE ToolsOf(_, _)
ToolsOf(ref, n) ==
    IF n = 0 THEN <<>>
    ELSE IF commands[n].node = ref THEN Append(ToolsOf(ref, n - 1), commands[n].tool)
    ELSE ToolsOf(ref, n - 1)

\* The tools of the one path the options choose: the filter when
\* optimizeWithFilter is set, else ttx twice when ttx is there and
\* optimizeWithTtx is set, else a plain move.
ChosenPath ==
    IF BuildOption("optimizeWithFilter") # ""
    THEN <<BuildOption("optimizeWithFilter"), "rm">>
    ELSE IF HasTtxValue /\ BuildOption("optimizeWithTtx") # ""
    THEN <<"ttx", "rm", "ttx", "rm">>
    ELSE <<"mv">>

SettledTTF == {n \in DOMAIN buildNodes : n.kind = "BuildTTF" /\ buildNodes[n].state = "settled"}

\* A settled BuildTTF node has run the one chosen path and left its output
\* but neither the raw file nor a temporary .temp.ttx file.
PostProcessed(ref) ==
    /\ ToolsOf(ref, Len(commands)) = ChosenPath
    /\ BuildTTF_path(ref.a, ref.b) \in FilesAfter(Len(commands))
    /\ BuildRawTtf_path(ref.a, ref.b) \notin FilesAfter(Len(commands))
    /\ (DirOf(ref) \o "/" \o ref.b \o ".temp.ttx") \notin FilesAfter(Len(commands))

\* C25: every settled BuildTTF(gr, fn) has run exactly one post-processing
\* path, the filter before ttx before a plain move, after which the raw
\* file and the temporary ttx file are gone and the output is there; and a
\* BuildTTF body starts a command only when BuildRawTtf(gr, fn) has settled
\* and has written the raw file.
C25_OnePostProcessingPath ==
    /\ [](\A ref \in SettledTTF : PostProcessed(ref))
    /\ [][\A i \in (Len(commands) + 1)..Len(commands') :
            commands'[i].node.kind = "BuildTTF" =>
                /\ StateOf(Ref("BuildRawTtf", commands'[i].node.a, commands'[i].node.b))
                        = "settled"
                /\ BuildRawTtf_path(commands'[i].node.a, commands'[i].node.b)
                        \in FilesAfter(Len(commands))]_vars

\* A BuildTTF node has settled where ttx is there and both options are set.
C25_Witness ==
    /\ SettledTTF # {}
    /\ BuildOption("optimizeWithFilter") # ""
    /\ HasTtxValue /\ BuildOption("optimizeWithTtx") # ""

====
